---- MODULE Spec2Model ----
(***************************************************************************)
(* cmdsafe: envelope cryptography (crypto/crypto.go, crypto_utils.go),     *)
(* the subcommands save (save.go), run and print (run.go) over the         *)
(* database, and the process supervisor (run.go: runCmd, runCmdAsync).     *)
(*                                                                         *)
(* Byte strings are sequences of 0..255 with the lengths of the code       *)
(* (16-byte IVs, 32-byte data keys, 64-byte user keys).  AES and scrypt    *)
(* are modelled as deterministic keyed functions, SHA-256 and HMAC-SHA256  *)
(* symbolically as the term of their inputs (no collisions, no forgery).   *)
(***************************************************************************)
EXTENDS Integers, Sequences, FiniteSets, TLC

VARIABLES
    c_pc,        \* crypto harness: "start", "encrypted", "tampered", "done"
    c_plain,     \* the plaintext handed to Encrypt
    c_userKey,   \* the user key handed to Encrypt
    c_env,       \* the envelope Encrypt returned, possibly tampered with since
    c_orig,      \* the envelope exactly as Encrypt returned it
    c_tamper,    \* the field a bit was flipped in, "shift" for bytes moved
                 \* between fields, or "none"
    c_decKey,    \* the user key handed to Decrypt
    c_res,       \* what Decrypt and DecryptCommand returned
    s_main,      \* runCmd: "entry", "start", "recv", "returned"
    s_ret,       \* what runCmd returned: [status, err]
    s_child,     \* the child process: "none", "running", "exited"
    s_term,      \* how the child terminated: [kind, code]
    s_await,     \* the await goroutine: "idle", "wait", "send", "closeExit",
                 \* "closeWait", "done"
    s_awaitErr,  \* the error cmd.Wait returned to the await goroutine
    s_fwd,       \* the forwarding goroutine: "idle", "select", "signal", "done"
    s_held,      \* the signal the forwarding goroutine received from signalCh
    s_exitCh,    \* exitCh: [buf, closed], capacity 1
    s_waitCh,    \* waitCh: "none", "open", "closed"
    s_intCh,     \* interruptCh: the buffered signals, capacity 1
    s_delivered, \* the signals the OS delivered to the supervisor, in order
    s_sent,      \* the cmd.Process.Signal calls made, in order
    db,          \* the bolt database: [created, command, busy]
    v_last,      \* the outcome of the last subcommand
    v_tampered,  \* whether the database file was tampered with
    v_saved,     \* per handle: the password and the name of the record whose
                 \* envelope is stored there, as save wrote it
    t_file,      \* the database file under concurrent invocations:
                 \* [created, command], each value in two parts
    t_lock,      \* per invocation: the lock it holds on the database file,
                 \* "none", "shared" or "excl"
    t_proc       \* per invocation: its subcommand, its position in accessDB
                 \* and what it has read and returned

cvars == <<c_pc, c_plain, c_userKey, c_env, c_orig, c_tamper, c_decKey, c_res>>

vvars == <<db, v_last, v_tampered, v_saved>>

svars == <<s_main, s_ret, s_child, s_term, s_await, s_awaitErr, s_fwd, s_held,
           s_exitCh, s_waitCh, s_intCh, s_delivered, s_sent>>

tvars == <<t_file, t_lock, t_proc>>

vars == <<cvars, svars, vvars, tvars>>

\* A nil pointer (envelope, command, result) and a nil byte slice.
Nil == [nil |-> TRUE]
NilBytes == <<-1>>

(***************************************************************************)
(* Bytes                                                                   *)
(***************************************************************************)
RECURSIVE XorBits(_, _, _)
XorBits(a, b, n) ==
    IF n = 0 THEN 0
    ELSE (((a % 2) + (b % 2)) % 2) + 2 * XorBits(a \div 2, b \div 2, n - 1)

\* The XOR of every pair of bytes, tabulated.
XorTable == [a \in 0..255 |-> [b \in 0..255 |-> XorBits(a, b, 8)]]

XorByte(a, b) == XorTable[a][b]

\* A digest of a byte string that depends on every byte and on the length.
RECURSIVE MixRange(_, _, _)
MixRange(s, lo, hi) ==
    IF lo > hi THEN 7
    ELSE IF lo = hi THEN ((s[lo] + 1) * (lo + 2)) % 65521
    ELSE LET mid == (lo + hi) \div 2
         IN  (MixRange(s, lo, mid) * 31 + MixRange(s, mid + 1, hi)) % 65521

Mix(s) == (MixRange(s, 1, Len(s)) + Len(s)) % 65521

RECURSIVE Concat(_)
Concat(parts) == IF parts = <<>> THEN <<>> ELSE Head(parts) \o Concat(Tail(parts))

Fill(n, seed) == [i \in 1..n |-> (seed * 37 + i * 11) % 256]

RECURSIVE Digits(_)
Digits(n) == IF n < 10 THEN <<48 + n>> ELSE Digits(n \div 10) \o <<48 + (n % 10)>>

\* The digits of -n for n < 0, without negating n (-(-2^31) overflows).
RECURSIVE NegDigits(_)
NegDigits(n) ==
    LET d    == (10 - (n % 10)) % 10
        rest == (n + d) \div 10
    IN  IF rest = 0 THEN <<48 + d>> ELSE NegDigits(rest) \o <<48 + d>>

\* strconv.Itoa
Itoa(n) == IF n < 0 THEN <<45>> \o NegDigits(n) ELSE Digits(n)

(***************************************************************************)
(* Program constants                                                       *)
(***************************************************************************)
CipherAlgo_AES256CTR == 0
KeyAlgo_SCRYPT == 0
cipherBlockSize == 16
DataKeyLen == 32
UserKeyLen == 64
SaltLen == 16

(***************************************************************************)
(* Bounds of the model                                                     *)
(***************************************************************************)
MaxPlainLen == 2
NumSeeds == 2

(***************************************************************************)
(* Key derivation and the Key type (crypto/crypto.go)                      *)
(***************************************************************************)
RECURSIVE IsPow2(_)
IsPow2(n) == IF n <= 0 THEN FALSE ELSE IF n = 1 THEN TRUE
             ELSE IF n % 2 = 1 THEN FALSE ELSE IsPow2(n \div 2)

\* scrypt.Key(password, salt, N, r, p, 64): the derived bytes depend on every
\* input, in both halves of the key.
ScryptBytes(password, salt, N, r, p) ==
    LET h == Mix(password \o <<255>> \o salt \o Itoa(N) \o Itoa(r) \o Itoa(p))
    IN  [i \in 1..UserKeyLen |-> (h * (i + 3) + (h \div 256) + i) % 256]

\* The run-time panic of an integer division by zero; it ends the process.
PanicDivide == "panic: integer divide by zero"

NewScryptKey(password, salt, N, r, p) ==
    IF N <= 1 \/ ~IsPow2(N)
    THEN [key |-> NilBytes, err |-> "scrypt: N must be > 1 and a power of 2"]
    ELSE IF r < 0 \/ p < 0
    THEN [key |-> NilBytes, err |-> "scrypt: parameters are too large"]
    ELSE IF r = 0 \/ p = 0
    THEN [key |-> NilBytes, err |-> PanicDivide]
    ELSE [key |-> ScryptBytes(password, salt, N, r, p), err |-> ""]

Encryption(k) == SubSeq(k, 1, Len(k) \div 2)

HMAC(k) == SubSeq(k, Len(k) \div 2 + 1, Len(k))

Hash(k) == <<"sha256", k>>

(***************************************************************************)
(* AES-CTR (crypto/crypto.go)                                              *)
(***************************************************************************)
\* aes.NewCipher accepts 16, 24 and 32 byte keys only.
NewCipherOK(key) == Len(key) \in {16, 24, 32}

\* The i-th byte of the CTR key stream, for the digests of key and iv.
KeyStream(mk, mi, i) == (mk * 17 + mi * 29 + i * 101) % 256

\* cipher.NewCTR(block, iv).XORKeyStream(dst, src)
XORKeyStream(key, iv, src) ==
    LET mk == Mix(key)
        mi == Mix(iv)
    IN  [i \in 1..Len(src) |-> XorByte(src[i], KeyStream(mk, mi, i))]

\* rnd is what rand.Read delivers for the IV: [ok, bytes].
EncryptAESCTR(key, plaintext, rnd) ==
    IF ~NewCipherOK(key)
    THEN [iv |-> NilBytes, ciphertext |-> NilBytes, err |-> "crypto/aes: invalid key size"]
    ELSE IF ~rnd.ok
    THEN [iv |-> NilBytes, ciphertext |-> NilBytes,
          err |-> "failed to generate random initialization vector"]
    ELSE [iv |-> rnd.bytes,
          ciphertext |-> XORKeyStream(key, rnd.bytes, plaintext),
          err |-> ""]

DecryptAESCTR(key, iv, ciphertext) ==
    IF ~NewCipherOK(key)
    THEN [plaintext |-> NilBytes, err |-> "crypto/aes: invalid key size"]
    ELSE IF Len(iv) # cipherBlockSize
    THEN [plaintext |-> NilBytes, err |-> "wrong IV length"]
    ELSE [plaintext |-> XORKeyStream(key, iv, ciphertext), err |-> ""]

(***************************************************************************)
(* Sign, Encrypt, Decrypt (crypto/crypto.go)                               *)
(***************************************************************************)
\* Mutant of Sign: the last part (the data) is left out of the signature.
Sign_SkipData(hmacKey, parts) ==
    <<"hmac", hmacKey, Concat(SubSeq(parts, 1, Len(parts) - 1))>>

\* Sign writes every part to the signer in order and returns the checksum: the
\* HMAC of the concatenation under hmacKey.
Sign(hmacKey, parts) == <<"hmac", hmacKey, Concat(parts)>>

ErrIntegrity == "invalid signature, the data may have been tempered with"
ErrCipherAlgo == "unsupported cipher algorithm"
ErrNilEnv == "nil crypto envelope"

\* rnd: [key, iv, keyIV], each what rand.Read delivers: [ok, bytes].
Encrypt(plaintext, userKey, rnd) ==
    IF ~rnd.key.ok
    THEN [env |-> Nil, err |-> "failed to generate random encryption key"]
    ELSE
    LET key == rnd.key.bytes
        d   == EncryptAESCTR(key, plaintext, rnd.iv)
    IN  IF d.err # "" THEN [env |-> Nil, err |-> d.err]
        ELSE
        LET k == EncryptAESCTR(Encryption(userKey), key, rnd.keyIV)
        IN  IF k.err # "" THEN [env |-> Nil, err |-> k.err]
            ELSE
            LET encryptedKey == k.iv \o k.ciphertext
                sig == Sign(HMAC(userKey),
                            <<Itoa(CipherAlgo_AES256CTR), d.iv, encryptedKey,
                              d.ciphertext>>)
            IN  [env |-> [hmac |-> sig, iv |-> d.iv, key |-> encryptedKey,
                          algorithm |-> CipherAlgo_AES256CTR,
                          userKey |-> Nil, data |-> d.ciphertext],
                 err |-> ""]

\* Mutant of DecryptVerified: the key IV is not stripped from env.Key.
DecryptVerified_WholeKey(env, userKey, events) ==
    LET keyIV == SubSeq(env.key, 1, cipherBlockSize)
        k == DecryptAESCTR(Encryption(userKey), keyIV, env.key)
        ev1 == events \o <<"slice", "fn">>
    IN  IF k.err # "" THEN [plaintext |-> NilBytes, err |-> k.err, events |-> ev1]
        ELSE
        LET d == DecryptAESCTR(k.plaintext, env.iv, env.data)
        IN  [plaintext |-> d.plaintext, err |-> d.err,
             events |-> ev1 \o <<"fn">>]

\* The run-time panic of env.Key[cipherBlockSize:] for a shorter env.Key; it
\* ends the process.
PanicSliceBounds == "panic: slice bounds out of range"

\* The steps of Decrypt after the HMAC has verified: slice env.Key, unwrap
\* the data key, decrypt the data.  events lists what was done, in order.
DecryptVerified(env, userKey, events) ==
    IF Len(env.key) < cipherBlockSize
    THEN [plaintext |-> NilBytes, err |-> PanicSliceBounds,
          events |-> events \o <<"slice">>]
    ELSE
    LET keyIV == SubSeq(env.key, 1, cipherBlockSize)
        keyCipher == SubSeq(env.key, cipherBlockSize + 1, Len(env.key))
        k == DecryptAESCTR(Encryption(userKey), keyIV, keyCipher)
        ev1 == events \o <<"slice", "fn">>
    IN  IF k.err # "" THEN [plaintext |-> NilBytes, err |-> k.err, events |-> ev1]
        ELSE
        LET d == DecryptAESCTR(k.plaintext, env.iv, env.data)
        IN  [plaintext |-> d.plaintext, err |-> d.err,
             events |-> ev1 \o <<"fn">>]

\* Mutant of Decrypt: the key is unwrapped and the data decrypted before the
\* HMAC is compared.
Decrypt_UnwrapFirst(env, userKey) ==
    IF env = Nil
    THEN [plaintext |-> NilBytes, err |-> ErrNilEnv, events |-> <<>>]
    ELSE IF env.algorithm # CipherAlgo_AES256CTR
    THEN [plaintext |-> NilBytes, err |-> ErrCipherAlgo, events |-> <<"algo">>]
    ELSE
    LET d == DecryptVerified(env, userKey, <<"algo">>)
        sig == Sign(HMAC(userKey),
                    <<Itoa(env.algorithm), env.iv, env.key, env.data>>)
    IN  IF sig # env.hmac
        THEN [plaintext |-> NilBytes, err |-> ErrIntegrity,
              events |-> d.events \o <<"sign", "mismatch">>]
        ELSE [d EXCEPT !.events = @ \o <<"sign", "verified">>]

Decrypt(env, userKey) ==
    IF env = Nil
    THEN [plaintext |-> NilBytes, err |-> ErrNilEnv, events |-> <<>>]
    ELSE IF env.algorithm # CipherAlgo_AES256CTR
    THEN [plaintext |-> NilBytes, err |-> ErrCipherAlgo, events |-> <<"algo">>]
    ELSE
    LET sig == Sign(HMAC(userKey),
                    <<Itoa(env.algorithm), env.iv, env.key, env.data>>)
    IN  IF sig # env.hmac
        THEN [plaintext |-> NilBytes, err |-> ErrIntegrity,
              events |-> <<"algo", "sign", "mismatch">>]
        ELSE DecryptVerified(env, userKey, <<"algo", "sign", "verified">>)

(***************************************************************************)
(* The Command record and its wire format (protobuf message Command)       *)
(***************************************************************************)
\* A length-delimited field: tag byte, length, bytes.
PbField(tag, bytes) == <<tag, Len(bytes)>> \o bytes

RECURSIVE PbRepeated(_, _)
PbRepeated(tag, seq) ==
    IF seq = <<>> THEN <<>>
    ELSE PbField(tag, Head(seq)) \o PbRepeated(tag, Tail(seq))

\* proto3: an empty singular string is not written, every element of a
\* repeated field is.
MarshalCommand(cmd) ==
    (IF cmd.name = <<>> THEN <<>> ELSE PbField(10, cmd.name))
    \o (IF cmd.executable = <<>> THEN <<>> ELSE PbField(18, cmd.executable))
    \o PbRepeated(26, cmd.args)

\* Parses the fields of b into acc; bytes that are no field of Command make
\* the parse fail.
RECURSIVE PbParse(_, _)
PbParse(b, acc) ==
    IF b = <<>> THEN [cmd |-> acc, err |-> ""]
    ELSE IF Len(b) < 2 \/ b[1] \notin {10, 18, 26}
    THEN [cmd |-> Nil, err |-> "failed to unmarshal the command data"]
    ELSE IF b[2] > 127 \/ Len(b) < 2 + b[2]
    THEN [cmd |-> Nil, err |-> "failed to unmarshal the command data"]
    ELSE
    LET val  == SubSeq(b, 3, 2 + b[2])
        rest == SubSeq(b, 3 + b[2], Len(b))
    IN  PbParse(rest,
                IF b[1] = 10 THEN [acc EXCEPT !.name = val]
                ELSE IF b[1] = 18 THEN [acc EXCEPT !.executable = val]
                ELSE [acc EXCEPT !.args = Append(@, val)])

UnmarshalCommand(b) ==
    PbParse(b, [name |-> <<>>, executable |-> <<>>, args |-> <<>>])

(***************************************************************************)
(* DecryptCommand (crypto_utils.go)                                        *)
(***************************************************************************)
\* DecryptCommand repeats the statements of Decrypt (nil check, algorithm
\* check, HMAC, unwrap, decrypt) and then parses the plaintext.
DecryptCommand(env, userKey) ==
    LET d == Decrypt(env, userKey)
    IN  IF d.err # ""
        THEN [cmd |-> Nil, err |-> d.err, events |-> d.events]
        ELSE LET u == UnmarshalCommand(d.plaintext)
             IN  [cmd |-> u.cmd, err |-> u.err,
                  events |-> d.events \o <<"unmarshal">>]


(***************************************************************************)
(* Inputs                                                                  *)
(***************************************************************************)
RECURSIVE Pow2(_)
Pow2(n) == IF n = 0 THEN 1 ELSE 2 * Pow2(n - 1)

FlipByte(v, bit) == XorByte(v, Pow2(bit))

FlipBytes(s, pos, bit) == [s EXCEPT ![pos] = FlipByte(@, bit)]

\* Flip one bit of a 32-bit two's complement integer (an enum field).
FlipInt32(v, bit) ==
    LET half == Pow2(30)
        low  == IF v < 0 THEN (v + half) + half ELSE v   \* the low 31 bits
        flo  == IF (low \div Pow2(bit)) % 2 = 1 THEN low - Pow2(bit)
                ELSE low + Pow2(bit)
    IN  IF bit = 31
        THEN (IF v < 0 THEN low ELSE (v - half) - half)
        ELSE (IF v < 0 THEN (flo - half) - half ELSE flo)

PlainBytes == {0, 165}

RECURSIVE SeqsUpTo(_, _)
SeqsUpTo(S, n) ==
    IF n = 0 THEN {<<>>}
    ELSE LET shorter == SeqsUpTo(S, n - 1)
         IN  shorter \cup {Append(s, x) : s \in shorter, x \in S}

Plaintexts == SeqsUpTo(PlainBytes, MaxPlainLen)

Passwords == {<<112>>, <<113>>}

\* The scrypt parameters doCmdSave uses.
ScryptN == 16384
ScryptR == 8
ScryptP == 1

UserKeys ==
    {NewScryptKey(pw, Fill(SaltLen, 0), ScryptN, ScryptR, ScryptP).key :
        pw \in Passwords}

\* What the three rand.Read calls of Encrypt deliver; failAt names the call
\* that fails (0: none).
Rnd(seed, failAt) ==
    [key   |-> [ok |-> failAt # 1, bytes |-> Fill(DataKeyLen, seed)],
     iv    |-> [ok |-> failAt # 2, bytes |-> Fill(cipherBlockSize, seed + 10)],
     keyIV |-> [ok |-> failAt # 3, bytes |-> Fill(cipherBlockSize, seed + 20)]]

(***************************************************************************)
(* Process supervisor (run.go: runCmd, runCmdAsync)                        *)
(***************************************************************************)
MaxSignals == 2

interruptChCap == 1
exitChCap == 1

\* The signals runCmd registers with signal.Notify.
Signals == {"SIGINT", "SIGTERM"}

ExitCodes == {0, 1, 37}

\* How a child can terminate: it exits with a code, it is killed by a signal,
\* or waiting for it fails for another reason.
Terminations ==
    {[kind |-> "exit", code |-> c, sig |-> "none"] : c \in ExitCodes}
    \cup {[kind |-> "signaled", code |-> 0, sig |-> sg] : sg \in Signals}
    \cup {[kind |-> "waitfail", code |-> 0, sig |-> "none"]}

NoTermination == [kind |-> "none", code |-> 0, sig |-> "none"]

NilErr == [kind |-> "nil", ws |-> NoTermination]

\* What cmd.Wait returns: nil for exit code 0, an *exec.ExitError carrying the
\* wait status for any other exit and for death by signal, another error if
\* the wait itself failed.
WaitErrOf(term) ==
    IF term.kind = "exit" /\ term.code = 0 THEN NilErr
    ELSE IF term.kind \in {"exit", "signaled"}
    THEN [kind |-> "ExitError", ws |-> term]
    ELSE [kind |-> "other", ws |-> NoTermination]

\* Mutant of ExitStatus: 0 for a process that did not exit.
ExitStatus_ZeroUnlessExited(ws) == IF ws.kind = "exit" THEN ws.code ELSE 0

\* syscall.WaitStatus.ExitStatus: the exit code, -1 if the process did not exit.
ExitStatus(ws) == IF ws.kind = "exit" THEN ws.code ELSE -1

\* Mutant of RunCmdResult: every error is reported as status 1.
RunCmdResult_Unknown(err) ==
    IF err = NilErr THEN [status |-> 0, err |-> ""]
    ELSE [status |-> 1, err |-> "exited with error"]

\* runCmd after the receive from exitCh: the status and error it returns.
RunCmdResult(err) ==
    IF err = NilErr THEN [status |-> 0, err |-> ""]
    ELSE [status |-> IF err.kind = "ExitError" THEN ExitStatus(err.ws) ELSE 1,
          err |-> "exited with error"]

NoSignal == [id |-> 0, sig |-> "none"]

\* The supervisor before runCmd is called.
IdleRun ==
    /\ s_main = "idle"
    /\ s_ret = [status |-> 0, err |-> ""]
    /\ s_child = "none"
    /\ s_term = NoTermination
    /\ s_await = "idle"
    /\ s_awaitErr = NilErr
    /\ s_fwd = "idle"
    /\ s_held = NoSignal
    /\ s_exitCh = [buf |-> <<>>, closed |-> FALSE]
    /\ s_waitCh = "none"
    /\ s_intCh = <<>>
    /\ s_delivered = <<>>
    /\ s_sent = <<>>

\* runCmd: make(chan os.Signal, 1) and signal.Notify.
RunCmdNotify ==
    /\ s_main = "entry"
    /\ s_main' = "start"
    /\ UNCHANGED <<s_ret, s_child, s_term, s_await, s_awaitErr, s_fwd, s_held,
                   s_exitCh, s_waitCh, s_intCh, s_delivered, s_sent>>
    /\ UNCHANGED <<cvars, vvars, tvars>>

\* runCmdAsync when cmd.Start fails: exitCh is closed and the error returned;
\* runCmd returns 1 and "failed to start".
RunCmdStartFails ==
    /\ s_main = "start"
    /\ s_exitCh' = [s_exitCh EXCEPT !.closed = TRUE]
    /\ s_ret' = [status |-> 1, err |-> "failed to start"]
    /\ s_main' = "returned"
    /\ UNCHANGED <<s_child, s_term, s_await, s_awaitErr, s_fwd, s_held,
                   s_waitCh, s_intCh, s_delivered, s_sent>>
    /\ UNCHANGED <<cvars, vvars, tvars>>

\* runCmdAsync when cmd.Start succeeds: the child runs, both goroutines are
\* started, and runCmd goes on to receive from exitCh.
RunCmdStart ==
    /\ s_main = "start"
    /\ s_child' = "running"
    /\ s_waitCh' = "open"
    /\ s_await' = "wait"
    /\ s_fwd' = "select"
    /\ s_main' = "recv"
    /\ UNCHANGED <<s_ret, s_term, s_awaitErr, s_held, s_exitCh, s_intCh,
                   s_delivered, s_sent>>
    /\ UNCHANGED <<cvars, vvars, tvars>>

\* The child terminates.
ChildExit ==
    /\ s_child = "running"
    /\ \E t \in Terminations : s_term' = t
    /\ s_child' = "exited"
    /\ UNCHANGED <<s_main, s_ret, s_await, s_awaitErr, s_fwd, s_held, s_exitCh,
                   s_waitCh, s_intCh, s_delivered, s_sent>>
    /\ UNCHANGED <<cvars, vvars, tvars>>

\* Await goroutine: cmd.Wait returns once the child has terminated.
AwaitWait ==
    /\ s_await = "wait"
    /\ s_child = "exited"
    /\ s_awaitErr' = WaitErrOf(s_term)
    /\ s_await' = IF WaitErrOf(s_term) # NilErr THEN "send" ELSE "closeExit"
    /\ UNCHANGED <<s_main, s_ret, s_child, s_term, s_fwd, s_held, s_exitCh,
                   s_waitCh, s_intCh, s_delivered, s_sent>>
    /\ UNCHANGED <<cvars, vvars, tvars>>

\* Await goroutine: exitCh <- err.
AwaitSend ==
    /\ s_await = "send"
    /\ Len(s_exitCh.buf) < exitChCap
    /\ s_exitCh' = [s_exitCh EXCEPT !.buf = Append(@, s_awaitErr)]
    /\ s_await' = "closeExit"
    /\ UNCHANGED <<s_main, s_ret, s_child, s_term, s_awaitErr, s_fwd, s_held,
                   s_waitCh, s_intCh, s_delivered, s_sent>>
    /\ UNCHANGED <<cvars, vvars, tvars>>

\* Mutant of AwaitCloseExit: exitCh may also be closed before the error is
\* sent.
AwaitCloseExit_BeforeSend ==
    /\ s_await \in {"send", "closeExit"}
    /\ s_exitCh' = [s_exitCh EXCEPT !.closed = TRUE]
    /\ s_await' = IF s_await = "send" /\ ~s_exitCh.closed THEN "send"
                  ELSE "closeWait"
    /\ UNCHANGED <<s_main, s_ret, s_child, s_term, s_awaitErr, s_fwd, s_held,
                   s_waitCh, s_intCh, s_delivered, s_sent>>
    /\ UNCHANGED <<cvars, vvars, tvars>>

\* Await goroutine: close(exitCh).
AwaitCloseExit ==
    /\ s_await = "closeExit"
    /\ s_exitCh' = [s_exitCh EXCEPT !.closed = TRUE]
    /\ s_await' = "closeWait"
    /\ UNCHANGED <<s_main, s_ret, s_child, s_term, s_awaitErr, s_fwd, s_held,
                   s_waitCh, s_intCh, s_delivered, s_sent>>
    /\ UNCHANGED <<cvars, vvars, tvars>>

\* Mutant of AwaitCloseWait: the goroutine ends without closing waitCh.
AwaitCloseWait_NoClose ==
    /\ s_await = "closeWait"
    /\ s_await' = "done"
    /\ UNCHANGED <<s_main, s_ret, s_child, s_term, s_awaitErr, s_fwd, s_held,
                   s_exitCh, s_waitCh, s_intCh, s_delivered, s_sent>>
    /\ UNCHANGED <<cvars, vvars, tvars>>

\* Await goroutine: close(waitCh), the completion signal.
AwaitCloseWait ==
    /\ s_await = "closeWait"
    /\ s_waitCh' = "closed"
    /\ s_await' = "done"
    /\ UNCHANGED <<s_main, s_ret, s_child, s_term, s_awaitErr, s_fwd, s_held,
                   s_exitCh, s_intCh, s_delivered, s_sent>>
    /\ UNCHANGED <<cvars, vvars, tvars>>

\* runCmd: err = <-exitCh, then the status is worked out and returned.  A
\* buffered value is received first, a closed and empty channel yields nil.
RunCmdRecv ==
    /\ s_main = "recv"
    /\ s_exitCh.buf # <<>> \/ s_exitCh.closed
    /\ LET err == IF s_exitCh.buf # <<>> THEN Head(s_exitCh.buf) ELSE NilErr
       IN  s_ret' = RunCmdResult(err)
    /\ s_exitCh' = [s_exitCh EXCEPT
                       !.buf = IF @ # <<>> THEN Tail(@) ELSE @]
    /\ s_main' = "returned"
    /\ UNCHANGED <<s_child, s_term, s_await, s_awaitErr, s_fwd, s_held,
                   s_waitCh, s_intCh, s_delivered, s_sent>>
    /\ UNCHANGED <<cvars, vvars, tvars>>

\* The OS delivers SIGINT or SIGTERM to the supervisor.  signal.Notify sends
\* without blocking: the signal is dropped when interruptCh is full.
SignalArrives ==
    /\ s_main \notin {"idle", "entry"}
    /\ Len(s_delivered) < MaxSignals
    /\ \E sg \in Signals :
          LET accepted == Len(s_intCh) < interruptChCap
              id == Len(s_delivered) + 1
          IN  /\ s_delivered' = Append(s_delivered,
                                   [sig |-> sg, running |-> s_child = "running",
                                    accepted |-> accepted])
              /\ s_intCh' = IF accepted
                            THEN Append(s_intCh, [id |-> id, sig |-> sg])
                            ELSE s_intCh
    /\ UNCHANGED <<s_main, s_ret, s_child, s_term, s_await, s_awaitErr, s_fwd,
                   s_held, s_exitCh, s_waitCh, s_sent>>
    /\ UNCHANGED <<cvars, vvars, tvars>>

\* Mutant of FwdRecvSignal: the received signal is discarded.
FwdRecvSignal_Drop ==
    /\ s_fwd = "select"
    /\ s_intCh # <<>>
    /\ s_intCh' = Tail(s_intCh)
    /\ UNCHANGED <<s_main, s_ret, s_child, s_term, s_await, s_awaitErr, s_fwd,
                   s_held, s_exitCh, s_waitCh, s_delivered, s_sent>>
    /\ UNCHANGED <<cvars, vvars, tvars>>

\* Forwarding goroutine: the select takes case s := <-signalCh.
FwdRecvSignal ==
    /\ s_fwd = "select"
    /\ s_intCh # <<>>
    /\ s_held' = Head(s_intCh)
    /\ s_intCh' = Tail(s_intCh)
    /\ s_fwd' = "signal"
    /\ UNCHANGED <<s_main, s_ret, s_child, s_term, s_await, s_awaitErr,
                   s_exitCh, s_waitCh, s_delivered, s_sent>>
    /\ UNCHANGED <<cvars, vvars, tvars>>

\* Forwarding goroutine: cmd.Process.Signal(s); an error is only logged.
FwdSignal ==
    /\ s_fwd = "signal"
    /\ s_sent' = Append(s_sent,
                        [id |-> s_held.id, sig |-> s_held.sig,
                         afterWait |-> s_waitCh = "closed",
                         running |-> s_child = "running"])
    /\ s_fwd' = "select"
    /\ UNCHANGED <<s_main, s_ret, s_child, s_term, s_await, s_awaitErr, s_held,
                   s_exitCh, s_waitCh, s_intCh, s_delivered>>
    /\ UNCHANGED <<cvars, vvars, tvars>>

\* Forwarding goroutine: the select takes case <-waitCh and the loop ends.
FwdObserveWait ==
    /\ s_fwd = "select"
    /\ s_waitCh = "closed"
    /\ s_fwd' = "done"
    /\ UNCHANGED <<s_main, s_ret, s_child, s_term, s_await, s_awaitErr, s_held,
                   s_exitCh, s_waitCh, s_intCh, s_delivered, s_sent>>
    /\ UNCHANGED <<cvars, vvars, tvars>>

(***************************************************************************)
(* The vault: subcommands save, run, print, delete and list                *)
(***************************************************************************)
Handles == {<<97>>, <<98>>}

Executables == {<<101>>}

StoredArgs == {<<<<120>>, <<119>>>>}

ExtraArgs == {<<>>, <<<<121>>, <<118>>>>}

\* The salt rand.Read delivers to doCmdSave, as seeds of Fill.
SaltSeeds == {30}

\* What requestPassword returns: a password, or an error.
PasswordInputs ==
    {[ok |-> TRUE, bytes |-> pw] : pw \in Passwords}
    \cup {[ok |-> FALSE, bytes |-> NilBytes]}

ErrPassword == "failed to read the password"
ErrNotFound == "not found"
\* bolt.Open gives up after Options.Timeout when it cannot lock the file.
ErrStorage == "timeout"
ErrExists == "cannot replace existing entry without -r flag"
ErrDeserialise == "failed to deserialise the crypto envelope"
ErrKeyAlgo == "unsupported key derivation algorithm"
ErrIncorrectPassword == "incorrect password"
ErrNameMismatch == "command name mismatch, the database may have been tempered with"

\* proto.Marshal and proto.Unmarshal of a CryptoEnvelope: the stored bytes
\* are the message [pb |-> env]; any other bytes do not parse.
MarshalEnvelope(env) == [pb |-> env]

UnmarshalEnvelope(bytes) ==
    IF "pb" \in DOMAIN bytes
    THEN [env |-> bytes.pb, err |-> ""]
    ELSE [env |-> Nil, err |-> ErrDeserialise]

\* The Command the argument parser builds for save: the handle is the name.
NewCommand(handle, executable, args) ==
    [name |-> handle, executable |-> executable, args |-> args]

\* Mutant of EncryptCommand: the arguments are left out of the plaintext.
EncryptCommand_DropsArgs(cmdData, userKey, rnd) ==
    Encrypt(MarshalCommand([cmdData EXCEPT !.args = <<>>]), userKey, rnd)

\* EncryptCommand (crypto_utils.go) marshals the command and then repeats the
\* statements of Encrypt.
EncryptCommand(cmdData, userKey, rnd) ==
    Encrypt(MarshalCommand(cmdData), userKey, rnd)

\* The database as an invocation finds it while another process holds the
\* lock of the file for longer than the Timeout of bolt.Open.
Contended(d) == [d EXCEPT !.busy = TRUE]

\* The database file once the invocation has closed it.
Closed(d) == [d EXCEPT !.busy = FALSE]

\* createBuckets
createBuckets(d) == [d EXCEPT !.created = TRUE]

\* Mutant of writeCommand: puts the value whether or not the handle is stored.
writeCommand_AlwaysPut(d, handle, value, replace) ==
    LET d1 == createBuckets(d)
    IN  [db |-> [d1 EXCEPT !.command[handle] = value], err |-> ""]

\* writeCommand: the closure run by accessDB(false, ...).  Returns the
\* database after the call and the error.
writeCommand(d, handle, value, replace) ==
    LET d1 == createBuckets(d)
    IN  IF d1.command[handle] # Nil /\ ~replace
        THEN [db |-> d1, err |-> ErrExists]
        ELSE [db |-> [d1 EXCEPT !.command[handle] = value], err |-> ""]

\* doCmdSave up to proto.Marshal: the serialised envelope, or the error.
\* pwd is what requestPassword returned, salt what rand.Read delivered for
\* the salt, rnd the random draws of EncryptCommand.
doCmdSaveEnvelope(handle, cmdData, pwd, salt, rnd) ==
    IF ~pwd.ok THEN [msg |-> Nil, err |-> ErrPassword]
    ELSE IF ~salt.ok
    THEN [msg |-> Nil, err |-> "failed to generate the random password salt"]
    ELSE
    LET scryptConfig == [salt |-> salt.bytes, N |-> ScryptN, r |-> ScryptR,
                         p |-> ScryptP]
        k == NewScryptKey(pwd.bytes, scryptConfig.salt, scryptConfig.N,
                          scryptConfig.r, scryptConfig.p)
    IN  IF k.err # "" THEN [msg |-> Nil, err |-> k.err]
        ELSE
        LET e == EncryptCommand(cmdData, k.key, rnd)
        IN  IF e.err # "" THEN [msg |-> Nil, err |-> e.err]
            ELSE
            LET cryptoEnv == [e.env EXCEPT !.userKey =
                                 [algorithm |-> KeyAlgo_SCRYPT,
                                  hash |-> Hash(k.key),
                                  scrypt |-> scryptConfig]]
            IN  [msg |-> MarshalEnvelope(cryptoEnv), err |-> ""]

\* The last statement of doCmdSave: accessDB(false, writeCommand(...)).
doCmdSaveWrite(d, handle, sealed, replace) ==
    IF sealed.err # "" THEN [db |-> d, err |-> sealed.err]
    ELSE IF d.busy THEN [db |-> d, err |-> ErrStorage]
    ELSE writeCommand(d, handle, sealed.msg, replace)

\* doCmdSave
doCmdSave(d, handle, cmdData, replace, pwd, salt, rnd) ==
    doCmdSaveWrite(d, handle,
                   doCmdSaveEnvelope(handle, cmdData, pwd, salt, rnd),
                   replace)

\* Mutant of loadCommandData: the entry is removed once it is read.
loadCommandData_Consume(d, handle) ==
    IF d.busy THEN [value |-> Nil, err |-> ErrStorage, db |-> d]
    ELSE IF ~d.created THEN [value |-> Nil, err |-> ErrNotFound, db |-> d]
    ELSE IF d.command[handle] = Nil
    THEN [value |-> Nil, err |-> ErrNotFound, db |-> d]
    ELSE [value |-> d.command[handle], err |-> "",
          db |-> [d EXCEPT !.command[handle] = Nil]]

\* loadCommandData: accessDB(true, ...) with one View transaction.  db is the
\* database after the call.
loadCommandData(d, handle) ==
    IF d.busy THEN [value |-> Nil, err |-> ErrStorage, db |-> d]
    ELSE IF ~d.created THEN [value |-> Nil, err |-> ErrNotFound, db |-> d]
    ELSE IF d.command[handle] = Nil
    THEN [value |-> Nil, err |-> ErrNotFound, db |-> d]
    ELSE [value |-> d.command[handle], err |-> "", db |-> d]

\* Mutant of doCmdDelete: no check that the handle is stored.
doCmdDelete_NoCheck(d, handle) ==
    IF d.busy THEN [db |-> d, err |-> ErrStorage]
    ELSE [db |-> [createBuckets(d) EXCEPT !.command[handle] = Nil],
          err |-> ""]

\* doCmdDelete: accessDB(false, ...), createBuckets, then one Update
\* transaction that fails for a handle that is not stored.
doCmdDelete(d, handle) ==
    IF d.busy THEN [db |-> d, err |-> ErrStorage]
    ELSE LET d1 == createBuckets(d)
         IN  IF d1.command[handle] = Nil
             THEN [db |-> d1, err |-> ErrNotFound]
             ELSE [db |-> [d1 EXCEPT !.command[handle] = Nil], err |-> ""]

\* The order in which a bolt cursor visits the keys: byte order.
KeyOrder == <<<<97>>, <<98>>>>

\* Mutant of commandList: every handle is listed, stored or not.
commandList_All(d) ==
    IF d.busy THEN [handles |-> <<>>, err |-> ErrStorage, db |-> d]
    ELSE IF ~d.created THEN [handles |-> <<>>, err |-> "", db |-> d]
    ELSE [handles |-> KeyOrder, err |-> "", db |-> d]

\* commandList: accessDB(true, ...) with one View transaction; a database
\* without the command bucket counts as empty.
commandList(d) ==
    IF d.busy THEN [handles |-> <<>>, err |-> ErrStorage, db |-> d]
    ELSE IF ~d.created THEN [handles |-> <<>>, err |-> "", db |-> d]
    ELSE [handles |-> SelectSeq(KeyOrder, LAMBDA h : d.command[h] # Nil),
          err |-> "", db |-> d]

ErrNoDatabase == "cannot read database"

\* doCmdList: os.Stat of the database file, then commandList.  The file
\* exists once a save or delete has opened the database.
doCmdList(d) ==
    IF ~d.created
    THEN [handles |-> <<>>, err |-> ErrNoDatabase, db |-> d]
    ELSE commandList(d)

\* Mutant of retrieveChecked: the key is derived with the parameters save
\* uses, not with the stored ones.
retrieveChecked_Defaults(cryptoEnv, handle, password, events) ==
    LET scryptConfig == cryptoEnv.userKey.scrypt
        k == NewScryptKey(password, scryptConfig.salt, ScryptN, ScryptR,
                          ScryptP)
        ev1 == events \o <<"kdf">>
    IN  IF k.err # "" THEN [cmd |-> Nil, err |-> k.err, events |-> ev1]
        ELSE IF Hash(k.key) # cryptoEnv.userKey.hash
        THEN [cmd |-> Nil, err |-> ErrIncorrectPassword,
              events |-> ev1 \o <<"hash">>]
        ELSE
        LET d == DecryptCommand(cryptoEnv, k.key)
            ev2 == ev1 \o <<"hash", "DecryptCommand">> \o d.events
        IN  IF d.err # "" THEN [cmd |-> Nil, err |-> d.err, events |-> ev2]
            ELSE IF d.cmd.name # handle
            THEN [cmd |-> Nil, err |-> ErrNameMismatch, events |-> ev2]
            ELSE [cmd |-> d.cmd, err |-> "", events |-> ev2]

\* The steps of retrieveCommandData once the algorithm tags are accepted:
\* derive the key, compare its hash, decrypt, compare the name.
retrieveChecked(cryptoEnv, handle, password, events) ==
    LET scryptConfig == cryptoEnv.userKey.scrypt
        k == NewScryptKey(password, scryptConfig.salt, scryptConfig.N,
                          scryptConfig.r, scryptConfig.p)
        ev1 == events \o <<"kdf">>
    IN  IF k.err # "" THEN [cmd |-> Nil, err |-> k.err, events |-> ev1]
        ELSE IF Hash(k.key) # cryptoEnv.userKey.hash
        THEN [cmd |-> Nil, err |-> ErrIncorrectPassword,
              events |-> ev1 \o <<"hash">>]
        ELSE
        LET d == DecryptCommand(cryptoEnv, k.key)
            ev2 == ev1 \o <<"hash", "DecryptCommand">> \o d.events
        IN  IF d.err # "" THEN [cmd |-> Nil, err |-> d.err, events |-> ev2]
            ELSE IF d.cmd.name # handle
            THEN [cmd |-> Nil, err |-> ErrNameMismatch, events |-> ev2]
            ELSE [cmd |-> d.cmd, err |-> "", events |-> ev2]

\* Mutant of retrieveCommandData: the key is derived and the envelope
\* decrypted before the algorithm tags are looked at.
retrieveCommandData_TagsLast(d, handle, password) ==
    LET l == loadCommandData(d, handle)
    IN  IF l.err # "" THEN [cmd |-> Nil, err |-> l.err, events |-> <<"load">>]
        ELSE
        LET u == UnmarshalEnvelope(l.value)
        IN  IF u.err # "" \/ u.env.userKey = Nil
            THEN [cmd |-> Nil, err |-> ErrDeserialise, events |-> <<"load">>]
            ELSE
            LET r == retrieveChecked(u.env, handle, password, <<"load">>)
            IN  IF u.env.userKey.algorithm # KeyAlgo_SCRYPT
                THEN [cmd |-> Nil, err |-> ErrKeyAlgo, events |-> r.events]
                ELSE IF u.env.algorithm # CipherAlgo_AES256CTR
                THEN [cmd |-> Nil, err |-> ErrCipherAlgo, events |-> r.events]
                ELSE r

\* Mutant of retrieveCommandData: the hash of the derived key is not compared.
retrieveCommandData_NoHashCheck(d, handle, password) ==
    LET l == loadCommandData(d, handle)
        u == UnmarshalEnvelope(l.value)
    IN  IF l.err # "" THEN [cmd |-> Nil, err |-> l.err, events |-> <<"load">>]
        ELSE IF u.err # "" \/ u.env.userKey = Nil
        THEN [cmd |-> Nil, err |-> ErrDeserialise, events |-> <<"load">>]
        ELSE IF u.env.userKey.algorithm # KeyAlgo_SCRYPT
        THEN [cmd |-> Nil, err |-> ErrKeyAlgo, events |-> <<"load">>]
        ELSE IF u.env.algorithm # CipherAlgo_AES256CTR
        THEN [cmd |-> Nil, err |-> ErrCipherAlgo, events |-> <<"load">>]
        ELSE
        LET sc == u.env.userKey.scrypt
            k == NewScryptKey(password, sc.salt, sc.N, sc.r, sc.p)
            dc == DecryptCommand(u.env, k.key)
            ev == <<"load", "kdf", "DecryptCommand">> \o dc.events
        IN  IF dc.err # "" THEN [cmd |-> Nil, err |-> dc.err, events |-> ev]
            ELSE IF dc.cmd.name # handle
            THEN [cmd |-> Nil, err |-> ErrNameMismatch, events |-> ev]
            ELSE [cmd |-> dc.cmd, err |-> "", events |-> ev]

\* Mutant of retrieveCommandData: the name of the record is not compared
\* with the handle.
retrieveCommandData_NoNameCheck(d, handle, password) ==
    LET l == loadCommandData(d, handle)
        u == UnmarshalEnvelope(l.value)
    IN  IF l.err # "" THEN [cmd |-> Nil, err |-> l.err, events |-> <<"load">>]
        ELSE IF u.err # "" \/ u.env.userKey = Nil
        THEN [cmd |-> Nil, err |-> ErrDeserialise, events |-> <<"load">>]
        ELSE IF u.env.userKey.algorithm # KeyAlgo_SCRYPT
        THEN [cmd |-> Nil, err |-> ErrKeyAlgo, events |-> <<"load">>]
        ELSE IF u.env.algorithm # CipherAlgo_AES256CTR
        THEN [cmd |-> Nil, err |-> ErrCipherAlgo, events |-> <<"load">>]
        ELSE
        LET sc == u.env.userKey.scrypt
            k == NewScryptKey(password, sc.salt, sc.N, sc.r, sc.p)
            dc == DecryptCommand(u.env, k.key)
            ev == <<"load", "kdf", "hash", "DecryptCommand">> \o dc.events
        IN  IF Hash(k.key) # u.env.userKey.hash
            THEN [cmd |-> Nil, err |-> ErrIncorrectPassword,
                  events |-> <<"load", "kdf", "hash">>]
            ELSE [cmd |-> dc.cmd, err |-> dc.err, events |-> ev]

\* retrieveCommandData
retrieveCommandData(d, handle, password) ==
    LET l == loadCommandData(d, handle)
    IN  IF l.err # "" THEN [cmd |-> Nil, err |-> l.err, events |-> <<"load">>]
        ELSE
        LET u == UnmarshalEnvelope(l.value)
        IN  IF u.err # "" \/ u.env.userKey = Nil
            THEN [cmd |-> Nil, err |-> ErrDeserialise, events |-> <<"load">>]
            ELSE IF u.env.userKey.scrypt = Nil
            THEN [cmd |-> Nil, err |-> ErrDeserialise, events |-> <<"load">>]
            ELSE IF u.env.userKey.algorithm # KeyAlgo_SCRYPT
            THEN [cmd |-> Nil, err |-> ErrKeyAlgo, events |-> <<"load">>]
            ELSE IF u.env.algorithm # CipherAlgo_AES256CTR
            THEN [cmd |-> Nil, err |-> ErrCipherAlgo, events |-> <<"load">>]
            ELSE retrieveChecked(u.env, handle, password, <<"load">>)

\* A child that could not be started, besides the ways a started one ends.
StartFailure == [kind |-> "startfail", code |-> 0, sig |-> "none"]

ChildOutcomes == {StartFailure} \cup Terminations

\* No supervision: signal.Notify is not called, no goroutine is started and
\* nobody waits for the child.
Unsupervised == [notify |-> FALSE, tasks |-> {}, waited |-> FALSE]

\* What runCmd returns for a child with this outcome, and what it has set up
\* on the way: the signal.Notify registration, the goroutines runCmdAsync
\* started, and whether it received from exitCh.
runCmd(outcome) ==
    IF outcome = StartFailure
    THEN [status |-> 1, err |-> "failed to start",
          sup |-> [notify |-> TRUE, tasks |-> {}, waited |-> FALSE]]
    ELSE LET res == RunCmdResult(WaitErrOf(outcome))
         IN  [status |-> res.status, err |-> res.err,
              sup |-> [notify |-> TRUE, tasks |-> {"await", "forward"},
                       waited |-> TRUE]]

\* Mutant of startDetached: the error of Start is dropped.
startDetached_Swallow(outcome) ==
    [status |-> 0, err |-> "", sup |-> Unsupervised]

\* doCmdRun in detached mode: exec.Command(...).Start() and nothing else.
startDetached(outcome) ==
    [status |-> 0,
     err |-> IF outcome = StartFailure THEN "failed to start" ELSE "",
     sup |-> Unsupervised]

\* Mutant of doCmdRunRetrieved: the child is supervised in detached mode too.
doCmdRunRetrieved_AlwaysAttached(r, handle, config, outcome) ==
    IF r.err # ""
    THEN [status |-> 1, err |-> r.err, errCtx |-> <<>>, events |-> r.events,
          launched |-> Nil]
    ELSE
    LET args == IF Len(config.Args) > 0 THEN r.cmd.args \o config.Args
                ELSE r.cmd.args
        res  == runCmd(outcome)
    IN  [status |-> res.status, err |-> res.err,
         errCtx |-> IF res.err # "" THEN handle ELSE <<>>,
         events |-> r.events,
         launched |-> [executable |-> r.cmd.executable, args |-> args,
                       detached |-> config.Detached,
                       started |-> outcome # StartFailure, sup |-> res.sup]]

\* Mutant of doCmdRunRetrieved: the one-off arguments come first.
doCmdRunRetrieved_Prepend(r, handle, config, outcome) ==
    IF r.err # ""
    THEN [status |-> 1, err |-> r.err, errCtx |-> <<>>, events |-> r.events,
          launched |-> Nil]
    ELSE
    LET args == IF Len(config.Args) > 0 THEN config.Args \o r.cmd.args
                ELSE r.cmd.args
        res  == IF config.Detached THEN startDetached(outcome)
                ELSE runCmd(outcome)
    IN  [status |-> res.status, err |-> res.err,
         errCtx |-> IF res.err # "" THEN handle ELSE <<>>,
         events |-> r.events,
         launched |-> [executable |-> r.cmd.executable, args |-> args,
                       detached |-> config.Detached,
                       started |-> outcome # StartFailure, sup |-> res.sup]]

\* doCmdRun once the password was read and the record retrieved (r): the
\* launch.  launched is the process started, if any, with the supervision set
\* up for it; outcome is what becomes of the child; errCtx is the handle the
\* error is prefixed with, if it is.
doCmdRunRetrieved(r, handle, config, outcome) ==
    IF r.err # ""
    THEN [status |-> 1, err |-> r.err, errCtx |-> <<>>, events |-> r.events,
          launched |-> Nil]
    ELSE
    LET args == IF Len(config.Args) > 0 THEN r.cmd.args \o config.Args
                ELSE r.cmd.args
        res  == IF config.Detached THEN startDetached(outcome)
                ELSE runCmd(outcome)
    IN  [status |-> res.status, err |-> res.err,
         errCtx |-> IF res.err # "" THEN handle ELSE <<>>,
         events |-> r.events,
         launched |-> [executable |-> r.cmd.executable, args |-> args,
                       detached |-> config.Detached,
                       started |-> outcome # StartFailure, sup |-> res.sup]]

\* What doCmdRun and doCmdPrint do first: read the password and retrieve the
\* record stored under the handle.
retrieveWithPassword(d, handle, pwd) ==
    IF ~pwd.ok THEN [cmd |-> Nil, err |-> ErrPassword, events |-> <<>>]
    ELSE retrieveCommandData(d, handle, pwd.bytes)

\* The database after retrieveWithPassword.
afterRetrieve(d, handle, pwd) ==
    IF ~pwd.ok THEN d ELSE loadCommandData(d, handle).db

\* doCmdRun
doCmdRun(d, handle, config, pwd, outcome) ==
    doCmdRunRetrieved(retrieveWithPassword(d, handle, pwd), handle, config,
                      outcome)

\* doCmdPrint.  out is what is printed: the handle, the executable and the
\* arguments.
doCmdPrint(d, handle, pwd) ==
    LET r == retrieveWithPassword(d, handle, pwd)
    IN  IF r.err # "" THEN [err |-> r.err, events |-> r.events, out |-> Nil]
        ELSE [err |-> "", events |-> r.events,
              out |-> [handle |-> handle, executable |-> r.cmd.executable,
                       args |-> r.cmd.args]]

\* Mutant of mainExit: the status alone decides.
mainExit_StatusOnly(status, err) == status % 256

\* The tail of main: the exit status of the tool for what the subcommand
\* returned.  os.Exit passes the low eight bits of the status to the system.
mainExit(status, err) ==
    IF status = 0 /\ err # "" THEN 1 ELSE status % 256

\* The exit status of the process: a subcommand that panicked never reaches
\* the tail of main, the Go run time ends the process with status 2.
processExit(status, err) ==
    IF err \in {PanicDivide, PanicSliceBounds} THEN 2 ELSE mainExit(status, err)

\* The record of a subcommand: what it was given and what it returned.
\* config and outcome are the run options and what became of the child, for a
\* run that launched one.  cmd, replace and existed are the command a save was
\* given, its -r flag and whether the handle was stored when it began.
NoResult ==
    [op |-> "none", handle |-> <<>>, pwd |-> NilBytes, status |-> 0,
     err |-> "", errCtx |-> <<>>, events |-> <<>>, launched |-> Nil,
     config |-> Nil, outcome |-> NoTermination, out |-> Nil,
     cmd |-> Nil, replace |-> FALSE, existed |-> FALSE, exit |-> 0,
     handles |-> <<>>]

\* The vault before any subcommand has run: the database file is empty.
IdleVault ==
    /\ db = [created |-> FALSE, command |-> [h \in Handles |-> Nil],
             busy |-> FALSE]
    /\ v_last = NoResult
    /\ v_tampered = FALSE
    /\ v_saved = [h \in Handles |-> Nil]

\* cmdsafe save [-r] -name h executable args...
Save ==
    /\ \E h \in Handles, pwd \in PasswordInputs, exe \in Executables,
          args \in StoredArgs, seed \in SaltSeeds, saltOK \in BOOLEAN :
          \E sealed \in {doCmdSaveEnvelope(
                             h, NewCommand(h, exe, args), pwd,
                             [ok |-> saltOK, bytes |-> Fill(SaltLen, seed)],
                             Rnd(0, 0))} :
          \E replace \in BOOLEAN, avail \in BOOLEAN :
          \E r \in {doCmdSaveWrite(IF avail THEN db ELSE Contended(db), h,
                                 sealed, replace)} :
              /\ db' = Closed(r.db)
              /\ v_last' = [NoResult EXCEPT !.op = "save", !.handle = h,
                                            !.pwd = pwd.bytes, !.err = r.err,
                                            !.exit = mainExit(0, r.err),
                                            !.cmd = NewCommand(h, exe, args),
                                            !.replace = replace,
                                            !.existed = db.command[h] # Nil]
              /\ v_saved' = IF r.err # "" THEN v_saved
                            ELSE [v_saved EXCEPT
                                     ![h] = [pwd |-> pwd.bytes, name |-> h,
                                             exe |-> exe, args |-> args]]
    /\ UNCHANGED v_tampered
    /\ UNCHANGED <<cvars, svars, tvars>>

\* cmdsafe run [-d] h args...  The run options and the fate of the child are
\* inputs only of a run that gets as far as starting the child.
Run ==
    /\ \E h \in Handles, pwd \in PasswordInputs, avail \in BOOLEAN :
          \E got \in {retrieveWithPassword(
                          IF avail THEN db ELSE Contended(db), h, pwd)} :
              /\ db' = Closed(afterRetrieve(
                                 IF avail THEN db ELSE Contended(db), h, pwd))
              /\ \E extra \in IF got.err = "" THEN ExtraArgs ELSE {<<>>},
                    detached \in IF got.err = "" THEN BOOLEAN ELSE {FALSE},
                    outcome \in IF got.err = "" THEN ChildOutcomes
                                ELSE {StartFailure} :
                 LET config == [Args |-> extra, Detached |-> detached]
                     r == doCmdRunRetrieved(got, h, config, outcome)
                 IN  v_last' = [NoResult EXCEPT
                                   !.op = "run", !.handle = h,
                                   !.pwd = pwd.bytes,
                                   !.status = r.status,
                                   !.err = r.err,
                                   !.exit = processExit(r.status, r.err),
                                   !.errCtx = r.errCtx,
                                   !.events = r.events,
                                   !.launched = r.launched,
                                   !.config = IF r.launched = Nil THEN Nil
                                              ELSE config,
                                   !.outcome = IF r.launched = Nil
                                               THEN NoTermination
                                               ELSE outcome]
    /\ UNCHANGED <<v_tampered, v_saved>>
    /\ UNCHANGED <<cvars, svars, tvars>>

\* cmdsafe print h
PrintCmd ==
    /\ \E h \in Handles, pwd \in PasswordInputs, avail \in BOOLEAN :
          \E r \in {doCmdPrint(IF avail THEN db ELSE Contended(db), h, pwd)} :
              /\ db' = Closed(afterRetrieve(
                                 IF avail THEN db ELSE Contended(db), h, pwd))
              /\ v_last' = [NoResult EXCEPT
                               !.op = "print", !.handle = h,
                               !.pwd = pwd.bytes, !.err = r.err,
                               !.exit = processExit(0, r.err),
                               !.events = r.events, !.out = r.out]
    /\ UNCHANGED <<v_tampered, v_saved>>
    /\ UNCHANGED <<cvars, svars, tvars>>

\* cmdsafe delete h
Delete ==
    /\ \E h \in Handles, avail \in BOOLEAN :
          \E r \in {doCmdDelete(IF avail THEN db ELSE Contended(db), h)} :
              /\ db' = Closed(r.db)
              /\ v_last' = [NoResult EXCEPT !.op = "delete", !.handle = h,
                                            !.err = r.err,
                                            !.exit = mainExit(0, r.err)]
              /\ v_saved' = IF r.err # "" THEN v_saved
                            ELSE [v_saved EXCEPT ![h] = Nil]
    /\ UNCHANGED v_tampered
    /\ UNCHANGED <<cvars, svars, tvars>>

\* cmdsafe list
List ==
    /\ \E avail \in BOOLEAN :
          \E r \in {doCmdList(IF avail THEN db ELSE Contended(db))} :
              /\ db' = Closed(r.db)
              /\ v_last' = [NoResult EXCEPT !.op = "list", !.err = r.err,
                                            !.exit = mainExit(0, r.err),
                                            !.handles = r.handles]
    /\ UNCHANGED <<v_tampered, v_saved>>
    /\ UNCHANGED <<cvars, svars, tvars>>

\* Someone with write access to the database file copies the bytes stored
\* under one handle to another handle.
TamperCopy ==
    /\ ~v_tampered
    /\ \E from \in Handles, to \in Handles :
          /\ from # to
          /\ db.command[from] # Nil
          /\ db' = [db EXCEPT !.command[to] = db.command[from]]
          /\ v_saved' = [v_saved EXCEPT ![to] = v_saved[from]]
    /\ v_tampered' = TRUE
    /\ v_last' = NoResult
    /\ UNCHANGED <<cvars, svars, tvars>>

\* Someone with write access to the database file changes the cipher tag or
\* the key derivation tag of a stored envelope.
TamperTag ==
    /\ ~v_tampered
    /\ \E h \in Handles, field \in {"cipher", "kdf"}, bit \in {0, 31} :
          /\ db.command[h] # Nil
          /\ "pb" \in DOMAIN db.command[h]
          /\ db' = [db EXCEPT !.command[h].pb =
                       IF field = "cipher"
                       THEN [@ EXCEPT !.algorithm = FlipInt32(@, bit)]
                       ELSE [@ EXCEPT !.userKey.algorithm = FlipInt32(@, bit)]]
    /\ v_tampered' = TRUE
    /\ UNCHANGED v_saved
    /\ v_last' = NoResult
    /\ UNCHANGED <<cvars, svars, tvars>>

\* The changes of a cost parameter to a value that is not positive.
BadCosts == {<<"N", 0>>, <<"r", 0>>, <<"p", -1>>}

\* Someone with write access to the database file changes one of the scrypt
\* cost parameters of a stored envelope; the HMAC does not cover them.
TamperScrypt ==
    /\ ~v_tampered
    /\ \E h \in Handles, cost \in BadCosts :
          /\ db.command[h] # Nil
          /\ "pb" \in DOMAIN db.command[h]
          /\ db' = [db EXCEPT !.command[h].pb.userKey.scrypt[cost[1]] = cost[2]]
    /\ v_tampered' = TRUE
    /\ UNCHANGED v_saved
    /\ v_last' = NoResult
    /\ UNCHANGED <<cvars, svars, tvars>>

(***************************************************************************)
(* The store under concurrent invocations: accessDB and the file lock      *)
(***************************************************************************)
\* The invocations of the tool that run at the same time.
Procs == {"p1", "p2"}

\* The subcommands by what they do in the database: save and delete write,
\* load (run and print) and list read.
StoreOps == {"save", "delete", "load", "list"}

ReadOnlyOp(op) == op \in {"load", "list"}

\* A stored value takes two pages of the file; each page holds the mark of
\* the save that wrote it, or nothing.
NoPart == "none"

Absent == [a |-> NoPart, b |-> NoPart]

ValueOf(writer) == [a |-> writer, b |-> writer]

Whole(e) == e.a = e.b

\* Mutant of flockGranted: the lock is granted whoever holds the file.
flockGranted_Always(readonly, others) == TRUE

\* bolt.Open locks the file: shared for ReadOnly, exclusive otherwise.
\* others are the locks the other invocations hold.
flockGranted(readonly, others) ==
    IF readonly THEN "excl" \notin others ELSE others \subseteq {"none"}

OthersLocks(p) == {t_lock[q] : q \in Procs \ {p}}

\* What a transaction or db.Close reports when the file system fails.
ErrIO == "input/output error"

\* An invocation: err is what the closure passed to accessDB returned (or
\* the error of bolt.Open), ret what accessDB returned; opens and closes count
\* the calls of bolt.Open that succeeded and of db.Close.
IdleProc ==
    [pc |-> "idle", op |-> "none", handle |-> <<>>, replace |-> FALSE,
     absent |-> FALSE, err |-> "", got |-> Absent, listed |-> {},
     opens |-> 0, closes |-> 0, closeErr |-> "", ret |-> ""]

\* No invocation is running and the database file is empty.
IdleStore ==
    /\ t_file = [created |-> FALSE, command |-> [h \in Handles |-> Absent]]
    /\ t_lock = [p \in Procs |-> "none"]
    /\ t_proc = [p \in Procs |-> IdleProc]

\* An invocation begins: main has parsed the subcommand and calls accessDB.
StoreInvoke ==
    /\ \E p \in Procs, op \in StoreOps, h \in Handles, replace \in BOOLEAN :
          /\ t_proc[p].pc = "idle"
          /\ replace => op = "save"
          /\ op = "list" => h = KeyOrder[1]
          /\ t_proc' = [t_proc EXCEPT ![p] =
                           [IdleProc EXCEPT
                               !.pc = "open", !.op = op,
                               !.handle = IF op = "list" THEN <<>> ELSE h,
                               !.replace = replace,
                               !.absent = t_file.command[h] = Absent]]
    /\ UNCHANGED <<t_file, t_lock>>
    /\ UNCHANGED <<cvars, svars, vvars>>

\* accessDB: bolt.Open obtains the lock.
StoreOpen ==
    /\ \E p \in Procs :
          /\ t_proc[p].pc = "open"
          /\ flockGranted(ReadOnlyOp(t_proc[p].op), OthersLocks(p))
          /\ t_lock' = [t_lock EXCEPT ![p] =
                           IF ReadOnlyOp(t_proc[p].op) THEN "shared"
                           ELSE "excl"]
          /\ t_proc' = [t_proc EXCEPT ![p].pc =
                           IF ReadOnlyOp(t_proc[p].op) THEN "view"
                           ELSE "buckets",
                                      ![p].opens = @ + 1]
    /\ UNCHANGED t_file
    /\ UNCHANGED <<cvars, svars, vvars>>

\* accessDB: bolt.Open gives up after Timeout while the file is locked.
StoreOpenTimeout ==
    /\ \E p \in Procs :
          /\ t_proc[p].pc = "open"
          /\ ~flockGranted(ReadOnlyOp(t_proc[p].op), OthersLocks(p))
          /\ t_proc' = [t_proc EXCEPT ![p].pc = "done",
                                      ![p].err = ErrStorage,
                                      ![p].ret = ErrStorage]
    /\ UNCHANGED <<t_file, t_lock>>
    /\ UNCHANGED <<cvars, svars, vvars>>

\* Mutant of StoreCreateBuckets: when createBuckets fails the invocation
\* ends without db.Close.
StoreCreateBuckets_Leak ==
    /\ \E p \in Procs, failed \in BOOLEAN :
          /\ t_proc[p].pc = "buckets"
          /\ t_file' = IF failed THEN t_file
                       ELSE [t_file EXCEPT !.created = TRUE]
          /\ t_proc' = IF failed
                       THEN [t_proc EXCEPT ![p].pc = "done",
                                           ![p].err = ErrIO, ![p].ret = ErrIO]
                       ELSE [t_proc EXCEPT ![p].pc = "update"]
    /\ UNCHANGED t_lock
    /\ UNCHANGED <<cvars, svars, vvars>>

\* createBuckets, first statement of the closures of save and delete.  Its
\* transaction commits, or it fails and the closure returns its error.
StoreCreateBuckets ==
    /\ \E p \in Procs, failed \in BOOLEAN :
          /\ t_proc[p].pc = "buckets"
          /\ t_file' = IF failed THEN t_file
                       ELSE [t_file EXCEPT !.created = TRUE]
          /\ t_proc' = IF failed
                       THEN [t_proc EXCEPT ![p].pc = "close", ![p].err = ErrIO]
                       ELSE [t_proc EXCEPT ![p].pc = "update"]
    /\ UNCHANGED t_lock
    /\ UNCHANGED <<cvars, svars, vvars>>

\* The Update transaction of writeCommand and doCmdDelete up to its write:
\* Get, and the error that ends the transaction without a write.
StoreUpdate ==
    /\ \E p \in Procs :
          /\ t_proc[p].pc = "update"
          /\ LET stored == t_file.command[t_proc[p].handle] # Absent
                 refused == IF t_proc[p].op = "save"
                            THEN stored /\ ~t_proc[p].replace
                            ELSE ~stored
             IN  t_proc' = [t_proc EXCEPT
                               ![p].pc = IF refused THEN "close" ELSE "writeA",
                               ![p].err = IF ~refused THEN ""
                                          ELSE IF t_proc[p].op = "save"
                                          THEN ErrExists ELSE ErrNotFound]
    /\ UNCHANGED <<t_file, t_lock>>
    /\ UNCHANGED <<cvars, svars, vvars>>

\* Put or Delete and the commit: the first page is written.
StoreWriteA ==
    /\ \E p \in Procs :
          /\ t_proc[p].pc = "writeA"
          /\ t_file' = [t_file EXCEPT !.command[t_proc[p].handle].a =
                           IF t_proc[p].op = "save" THEN p ELSE NoPart]
          /\ t_proc' = [t_proc EXCEPT ![p].pc = "writeB"]
    /\ UNCHANGED t_lock
    /\ UNCHANGED <<cvars, svars, vvars>>

\* The commit: the second page is written.
StoreWriteB ==
    /\ \E p \in Procs :
          /\ t_proc[p].pc = "writeB"
          /\ t_file' = [t_file EXCEPT !.command[t_proc[p].handle].b =
                           IF t_proc[p].op = "save" THEN p ELSE NoPart]
          /\ t_proc' = [t_proc EXCEPT ![p].pc = "close"]
    /\ UNCHANGED t_lock
    /\ UNCHANGED <<cvars, svars, vvars>>

\* The View transaction of loadCommandData and commandList: the first page
\* of the value is copied, or the keys are listed.
StoreView ==
    /\ \E p \in Procs :
          /\ t_proc[p].pc = "view"
          /\ IF t_proc[p].op = "list"
             THEN t_proc' = [t_proc EXCEPT
                     ![p].pc = "close",
                     ![p].listed = IF ~t_file.created THEN {}
                                   ELSE {h \in Handles :
                                           t_file.command[h] # Absent}]
             ELSE t_proc' = [t_proc EXCEPT
                     ![p].pc = "readB",
                     ![p].got.a = IF ~t_file.created THEN NoPart
                                  ELSE t_file.command[t_proc[p].handle].a]
    /\ UNCHANGED <<t_file, t_lock>>
    /\ UNCHANGED <<cvars, svars, vvars>>

\* loadCommandData: the second page of the value is copied.
StoreReadB ==
    /\ \E p \in Procs :
          /\ t_proc[p].pc = "readB"
          /\ \E b \in {IF ~t_file.created THEN NoPart
                       ELSE t_file.command[t_proc[p].handle].b} :
                t_proc' = [t_proc EXCEPT
                     ![p].pc = "close",
                     ![p].got.b = b,
                     ![p].err = IF t_proc[p].got.a = NoPart /\ b = NoPart
                                THEN ErrNotFound ELSE ""]
    /\ UNCHANGED <<t_file, t_lock>>
    /\ UNCHANGED <<cvars, svars, vvars>>

\* accessDB: the deferred db.Close releases the lock; its error is returned
\* when the closure returned none.
StoreClose ==
    /\ \E p \in Procs, e \in {"", ErrIO} :
          /\ t_proc[p].pc = "close"
          /\ t_lock' = [t_lock EXCEPT ![p] = "none"]
          /\ t_proc' = [t_proc EXCEPT
                           ![p].pc = "done",
                           ![p].closes = @ + 1,
                           ![p].closeErr = e,
                           ![p].ret = IF t_proc[p].err = "" THEN e
                                      ELSE t_proc[p].err]
    /\ UNCHANGED t_file
    /\ UNCHANGED <<cvars, svars, vvars>>

(***************************************************************************)
(* Crypto harness: Encrypt, an attacker flipping one bit, Decrypt          *)
(***************************************************************************)
\* The crypto harness before it is used.
IdleCrypto ==
    /\ c_pc = "idle"
    /\ c_plain = <<>>
    /\ c_userKey = NilBytes
    /\ c_env = Nil
    /\ c_orig = Nil
    /\ c_tamper = "none"
    /\ c_decKey = NilBytes
    /\ c_res = Nil

InitCrypto ==
    /\ IdleRun
    /\ IdleVault
    /\ IdleStore
    /\ c_pc = "start"
    /\ c_plain \in Plaintexts
    /\ c_userKey \in UserKeys
    /\ c_env = Nil
    /\ c_orig = Nil
    /\ c_tamper = "none"
    /\ c_decKey = NilBytes
    /\ c_res = Nil

CryptoEncrypt ==
    /\ c_pc = "start"
    /\ \E seed \in 0..(NumSeeds - 1), failAt \in 0..3 :
          \E r \in {Encrypt(c_plain, c_userKey, Rnd(seed, failAt))} :
              /\ c_env' = r.env
              /\ c_orig' = r.env
    /\ c_pc' = "encrypted"
    /\ UNCHANGED <<c_plain, c_userKey, c_tamper, c_decKey, c_res, svars, vvars, tvars>>

\* The attacker flips one bit of iv, key or data.
CryptoFlipBytes ==
    /\ c_pc = "encrypted"
    /\ c_env # Nil
    /\ \E field \in {"iv", "key", "data"} :
          \E pos \in 1..Len(c_env[field]), bit \in 0..7 :
              /\ c_env' = [c_env EXCEPT ![field] = FlipBytes(@, pos, bit)]
              /\ c_tamper' = field
    /\ c_pc' = "tampered"
    /\ UNCHANGED <<c_plain, c_userKey, c_orig, c_decKey, c_res, svars, vvars, tvars>>

\* The attacker flips one bit of the algorithm tag.
CryptoFlipAlgorithm ==
    /\ c_pc = "encrypted"
    /\ c_env # Nil
    /\ \E bit \in 0..31 :
          c_env' = [c_env EXCEPT !.algorithm = FlipInt32(@, bit)]
    /\ c_tamper' = "algorithm"
    /\ c_pc' = "tampered"
    /\ UNCHANGED <<c_plain, c_userKey, c_orig, c_decKey, c_res, svars, vvars, tvars>>

\* How many bytes the attacker moves across a field boundary.
ShiftLens == {1, 8, 16, 33}

\* The envelope with the last n bytes of field from moved to the front of
\* the next field, or the first n bytes moved to the end of the field before.
ShiftFields(env, from, to, n) ==
    IF <<from, to>> \in {<<"iv", "key">>, <<"key", "data">>}
    THEN [env EXCEPT
             ![from] = SubSeq(@, 1, Len(@) - n),
             ![to] = SubSeq(env[from], Len(env[from]) - n + 1,
                            Len(env[from])) \o @]
    ELSE [env EXCEPT
             ![from] = SubSeq(@, n + 1, Len(@)),
             ![to] = @ \o SubSeq(env[from], 1, n)]

\* The attacker moves bytes from one of iv, key and data to its neighbour,
\* leaving their concatenation as it was.
CryptoShift ==
    /\ c_pc = "encrypted"
    /\ c_env # Nil
    /\ \E move \in {<<"iv", "key">>, <<"key", "iv">>, <<"key", "data">>,
                     <<"data", "key">>}, n \in ShiftLens :
          /\ n <= Len(c_env[move[1]])
          /\ c_env' = ShiftFields(c_env, move[1], move[2], n)
    /\ c_tamper' = "shift"
    /\ c_pc' = "tampered"
    /\ UNCHANGED <<c_plain, c_userKey, c_orig, c_decKey, c_res, svars, vvars, tvars>>

\* Decrypt and DecryptCommand of the envelope, under any of the user keys.
CryptoDecrypt ==
    /\ c_pc \in {"encrypted", "tampered"}
    /\ \E k \in UserKeys :
          /\ c_decKey' = k
          /\ c_res' = [dec |-> Decrypt(c_env, k), cmd |-> DecryptCommand(c_env, k)]
    /\ c_pc' = "done"
    /\ UNCHANGED <<c_plain, c_userKey, c_env, c_orig, c_tamper, svars, vvars, tvars>>

NextCrypto ==
    \/ CryptoEncrypt
    \/ CryptoFlipBytes
    \/ CryptoFlipAlgorithm
    \/ CryptoShift
    \/ CryptoDecrypt

SpecCrypto == InitCrypto /\ [][NextCrypto]_vars

Init ==
    /\ IdleCrypto
    /\ IdleRun
    /\ IdleVault
    /\ IdleStore

Next ==
    \/ Save
    \/ Run
    \/ PrintCmd
    \/ Delete
    \/ List
    \/ TamperCopy
    \/ TamperTag
    \/ TamperScrypt

Spec == Init /\ [][Next]_vars

InitRun ==
    /\ IdleCrypto
    /\ IdleVault
    /\ IdleStore
    /\ s_main = "entry"
    /\ s_ret = [status |-> 0, err |-> ""]
    /\ s_child = "none"
    /\ s_term = NoTermination
    /\ s_await = "idle"
    /\ s_awaitErr = NilErr
    /\ s_fwd = "idle"
    /\ s_held = NoSignal
    /\ s_exitCh = [buf |-> <<>>, closed |-> FALSE]
    /\ s_waitCh = "none"
    /\ s_intCh = <<>>
    /\ s_delivered = <<>>
    /\ s_sent = <<>>

NextRun ==
    \/ RunCmdNotify
    \/ RunCmdStartFails
    \/ RunCmdStart
    \/ ChildExit
    \/ AwaitWait
    \/ AwaitSend
    \/ AwaitCloseExit
    \/ AwaitCloseWait
    \/ RunCmdRecv
    \/ SignalArrives
    \/ FwdRecvSignal
    \/ FwdSignal
    \/ FwdObserveWait

SpecRun == InitRun /\ [][NextRun]_vars

\* The Go scheduler runs every runnable goroutine eventually.
FairSpecRun ==
    /\ SpecRun
    /\ WF_vars(RunCmdNotify)
    /\ WF_vars(RunCmdRecv)
    /\ WF_vars(AwaitWait)
    /\ WF_vars(AwaitSend)
    /\ WF_vars(AwaitCloseExit)
    /\ WF_vars(AwaitCloseWait)
    /\ WF_vars(FwdRecvSignal)
    /\ WF_vars(FwdSignal)
    /\ WF_vars(FwdObserveWait)

\* The database files the invocations may find: each handle not stored or
\* stored whole by an earlier save.
StoreFiles ==
    {f \in [created : BOOLEAN,
            command : [Handles -> {Absent, ValueOf("old")}]] :
        (\E h \in Handles : f.command[h] # Absent) => f.created}

InitStore ==
    /\ IdleCrypto
    /\ IdleRun
    /\ IdleVault
    /\ t_file \in StoreFiles
    /\ t_lock = [p \in Procs |-> "none"]
    /\ t_proc = [p \in Procs |-> IdleProc]

NextStore ==
    \/ StoreInvoke
    \/ StoreOpen
    \/ StoreOpenTimeout
    \/ StoreCreateBuckets
    \/ StoreUpdate
    \/ StoreWriteA
    \/ StoreWriteB
    \/ StoreView
    \/ StoreReadB
    \/ StoreClose

SpecStore == InitStore /\ [][NextStore]_vars

(***************************************************************************)
(* Claims about Encrypt and Decrypt (checked under SpecCrypto)             *)
(***************************************************************************)
CryptoDone == c_pc = "done"

SameKey == c_decKey = c_userKey

\* The HMAC Decrypt recomputes over {algorithm-id, iv, key, data} under the
\* key it was given equals the stored one.
HmacMatches ==
    Sign(HMAC(c_decKey),
         <<Itoa(c_env.algorithm), c_env.iv, c_env.key, c_env.data>>) = c_env.hmac

\* C1: Decrypt of the untouched envelope Encrypt returned for plaintext P
\* under user key K, with the same K, returns exactly P and no error.
C1_RoundTrip ==
    (CryptoDone /\ c_orig # Nil /\ c_tamper = "none" /\ SameKey)
        => (c_res.dec.err = "" /\ c_res.dec.plaintext = c_plain)

C1_Witness ==
    /\ CryptoDone /\ c_orig # Nil /\ c_tamper = "none" /\ SameKey
    /\ Len(c_plain) >= 2
    /\ c_orig.data # c_plain
    /\ c_res.dec.plaintext = c_plain

\* One bit of one field of the envelope was flipped.
Flipped == c_tamper \in {"iv", "key", "data", "algorithm"}

\* C2 as claimed: a single flipped bit in iv, key, data or algorithm makes
\* Decrypt with the correct key return the HMAC-mismatch error.
C2_FlipYieldsIntegrityError ==
    (CryptoDone /\ Flipped /\ SameKey)
        => (c_res.dec.err = ErrIntegrity /\ c_res.dec.plaintext = NilBytes)

\* C2 amended: a single flipped bit in iv, key or data makes Decrypt and
\* DecryptCommand with the correct key return the HMAC-mismatch error, a
\* flipped bit in algorithm makes them return the unsupported-algorithm
\* error; in every case no plaintext and no command is returned.
C2_FlipRejected ==
    (CryptoDone /\ Flipped /\ SameKey)
        => /\ c_res.dec.plaintext = NilBytes
           /\ c_res.cmd.cmd = Nil
           /\ c_tamper \in {"iv", "key", "data"}
                => (c_res.dec.err = ErrIntegrity /\ c_res.cmd.err = ErrIntegrity)
           /\ c_tamper = "algorithm"
                => (c_res.dec.err = ErrCipherAlgo /\ c_res.cmd.err = ErrCipherAlgo)

C2_Witness ==
    /\ CryptoDone /\ c_tamper = "data" /\ SameKey
    /\ Len(c_plain) >= 2
    /\ c_res.dec.err = ErrIntegrity

\* The envelope handed to Decrypt has the algorithm, iv, key and data that
\* Encrypt produced.
SameFields ==
    /\ c_env.algorithm = c_orig.algorithm
    /\ c_env.iv = c_orig.iv
    /\ c_env.key = c_orig.key
    /\ c_env.data = c_orig.data

\* C21: Decrypt with the correct user key returns a plaintext only for an
\* envelope whose algorithm, iv, key and data are those Encrypt produced; an
\* envelope that differs in any of them, also one that holds the same bytes
\* divided differently between iv, key and data, is rejected with the
\* integrity error.
C21_HmacBindsEveryField ==
    (CryptoDone /\ c_orig # Nil /\ SameKey)
        => /\ c_res.dec.err = "" => SameFields
           /\ ~SameFields
                => (c_res.dec.err = ErrIntegrity
                      /\ c_res.dec.plaintext = NilBytes)

\* Decrypt has returned a plaintext for an envelope whose key field lost
\* bytes to its data field.
C21_Witness ==
    /\ CryptoDone
    /\ SameKey
    /\ c_tamper = "shift"
    /\ Len(c_env.key) < Len(c_orig.key)
    /\ HmacMatches
    /\ c_res.dec.err = ""
    /\ c_res.dec.plaintext # c_plain

\* C27: for every envelope and every user key Decrypt and DecryptCommand
\* return a plaintext or an error and do not crash, also for an envelope
\* whose HMAC verifies and whose key field is shorter than the cipher block
\* size or whose iv is not 16 bytes long.
C27_DecryptTotal ==
    CryptoDone
        => /\ c_res.dec.err # PanicSliceBounds
           /\ c_res.cmd.err # PanicSliceBounds
           /\ c_res.dec.err = "" \/ c_res.dec.plaintext = NilBytes
           /\ (c_env # Nil /\ HmacMatches /\ Len(c_env.iv) # cipherBlockSize)
                => c_res.dec.err # ""

\* Decrypt was given an envelope whose HMAC verifies and whose key field has
\* fewer than 16 bytes.
C27_Witness ==
    /\ CryptoDone /\ c_env # Nil
    /\ c_env.algorithm = CipherAlgo_AES256CTR
    /\ HmacMatches
    /\ Len(c_env.key) < cipherBlockSize
    /\ c_res.dec.err = PanicSliceBounds

UsesCipher(events) ==
    \E i \in 1..Len(events) : events[i] \in {"slice", "fn"}

VerifiedBefore(events) ==
    \A i \in 1..Len(events) :
        events[i] \in {"slice", "fn"}
            => \E j \in 1..(i - 1) : events[j] = "verified"

\* C3: Decrypt and DecryptCommand slice env.Key and invoke the cipher function
\* only after the recomputed HMAC has been found equal to the stored one; on a
\* mismatch they return an error and nil, with nothing sliced or decrypted.
C3_FailClosed ==
    (CryptoDone /\ c_env # Nil)
        => /\ VerifiedBefore(c_res.dec.events)
           /\ VerifiedBefore(c_res.cmd.events)
           /\ (UsesCipher(c_res.dec.events) \/ UsesCipher(c_res.cmd.events))
                => HmacMatches
           /\ ~HmacMatches
                => /\ c_res.dec.err # "" /\ c_res.dec.plaintext = NilBytes
                   /\ c_res.cmd.err # "" /\ c_res.cmd.cmd = Nil

C3_Witness ==
    /\ CryptoDone /\ c_env # Nil
    /\ c_env.algorithm = CipherAlgo_AES256CTR
    /\ ~HmacMatches
    /\ c_res.dec.err = ErrIntegrity
    /\ ~UsesCipher(c_res.dec.events)

(***************************************************************************)
(* Claims about run and print (specification Spec)                         *)
(***************************************************************************)
\* The last subcommand was run or print, it read a password and it could open
\* the database.
Retrieved ==
    /\ v_last.op \in {"run", "print"}
    /\ v_last.pwd # NilBytes
    /\ v_last.err # ErrStorage

\* The bytes stored under the handle of the last subcommand, and the envelope
\* they hold.
StoredValue == db.command[v_last.handle]

StoredEnv == StoredValue.pb

BadCipherTag(env) == env.algorithm # CipherAlgo_AES256CTR

BadKDFTag(env) == env.userKey.algorithm # KeyAlgo_SCRYPT

\* The key NewScryptKey derives from password for the stored envelope.
DerivedKey(env, password) ==
    NewScryptKey(password, env.userKey.scrypt.salt, env.userKey.scrypt.N,
                 env.userKey.scrypt.r, env.userKey.scrypt.p).key

\* Nothing was launched and nothing was printed.
NothingDone == v_last.launched = Nil /\ v_last.out = Nil

\* C4: an envelope whose cipher tag is not AES256CTR or whose KDF tag is not
\* SCRYPT is rejected by run and print with the unsupported-algorithm error
\* after the load only: no key derivation, no hash comparison, no HMAC and no
\* decryption has happened, nothing is launched or printed; and Decrypt and
\* DecryptCommand reject a cipher tag other than AES256CTR at the algorithm
\* check, before the HMAC is computed.
C4_UnsupportedAlgorithmRejected ==
    (Retrieved /\ StoredValue # Nil) =>
        /\ (BadCipherTag(StoredEnv) \/ BadKDFTag(StoredEnv)) =>
              /\ v_last.err = IF BadKDFTag(StoredEnv) THEN ErrKeyAlgo
                              ELSE ErrCipherAlgo
              /\ v_last.events = <<"load">>
              /\ NothingDone
        /\ BadCipherTag(StoredEnv) =>
              \A pw \in Passwords :
                  LET k == DerivedKey(StoredEnv, pw)
                      d == Decrypt(StoredEnv, k)
                      c == DecryptCommand(StoredEnv, k)
                  IN  /\ d.err = ErrCipherAlgo /\ d.events = <<"algo">>
                      /\ d.plaintext = NilBytes
                      /\ c.err = ErrCipherAlgo /\ c.events = <<"algo">>
                      /\ c.cmd = Nil

\* run or print has rejected an envelope with a changed cipher tag.
C4_Witness ==
    /\ Retrieved
    /\ StoredValue # Nil
    /\ BadCipherTag(StoredEnv)
    /\ v_last.err = ErrCipherAlgo

\* The stored derivation parameters are inconsistent: N, r or p is not
\* positive.
BadScrypt(env) ==
    \/ env.userKey.scrypt.N <= 0
    \/ env.userKey.scrypt.r <= 0
    \/ env.userKey.scrypt.p <= 0

\* The errors scrypt.Key returns for parameters it refuses.
ScryptErrors == {"scrypt: N must be > 1 and a power of 2",
                 "scrypt: parameters are too large"}

\* C26: run and print of an envelope whose stored N, r or p is not positive
\* end with the error the key derivation returned, right after the
\* derivation: no hash comparison, no HMAC, no decryption, nothing launched
\* or printed.
C26_KdfErrorIsFatal ==
    (Retrieved /\ StoredValue # Nil /\ ~BadCipherTag(StoredEnv)
        /\ ~BadKDFTag(StoredEnv) /\ BadScrypt(StoredEnv))
        => /\ v_last.err \in ScryptErrors
           /\ v_last.events = <<"load", "kdf">>
           /\ NothingDone

\* run or print met a stored r or p of zero and the derivation divided by it.
C26_Witness ==
    /\ Retrieved /\ StoredValue # Nil
    /\ StoredEnv.userKey.scrypt.N = ScryptN
    /\ StoredEnv.userKey.scrypt.r = 0
    /\ v_last.err = PanicDivide
    /\ v_last.events = <<"load", "kdf">>
    /\ NothingDone

\* The last subcommand was a save that wrote its envelope.
SavedNow == v_last.op = "save" /\ v_last.err = ""

\* The key save derived, and the envelope EncryptCommand returned to it.
SaveKey == NewScryptKey(v_last.pwd, StoredEnv.userKey.scrypt.salt, ScryptN,
                        ScryptR, ScryptP).key

SaveEncrypted == EncryptCommand(v_last.cmd, SaveKey, Rnd(0, 0)).env

\* The derivation metadata of the key save derived.
SaveUserKey ==
    [algorithm |-> KeyAlgo_SCRYPT,
     hash |-> Hash(SaveKey),
     scrypt |-> [salt |-> StoredEnv.userKey.scrypt.salt, N |-> ScryptN,
                 r |-> ScryptR, p |-> ScryptP]]

\* run and print derive the key from the stored salt, N, r and p: a stored
\* envelope with valid tags gets the error of that derivation, or the hash
\* of that key is compared with the stored hash.
RederivesFromStored ==
    (Retrieved /\ StoredValue # Nil /\ ~BadCipherTag(StoredEnv)
        /\ ~BadKDFTag(StoredEnv))
        => LET k == NewScryptKey(v_last.pwd, StoredEnv.userKey.scrypt.salt,
                                 StoredEnv.userKey.scrypt.N,
                                 StoredEnv.userKey.scrypt.r,
                                 StoredEnv.userKey.scrypt.p)
           IN  /\ k.err # "" => v_last.err = k.err
               /\ (k.err = "" /\ Hash(k.key) # StoredEnv.userKey.hash)
                     => v_last.err = ErrIncorrectPassword
               /\ (k.err = "" /\ Hash(k.key) = StoredEnv.userKey.hash)
                     => v_last.err \notin {ErrIncorrectPassword} \cup ScryptErrors

\* C23 as claimed: the envelope Encrypt returns carries the cipher tag, the
\* KDF tag, salt, N, r, p and the key hash of the key that was derived, and
\* run and print derive the key from the stored values.
C23_EncryptAttachesMetadata ==
    /\ SavedNow => /\ SaveEncrypted.algorithm = CipherAlgo_AES256CTR
                   /\ SaveEncrypted.userKey = SaveUserKey
    /\ RederivesFromStored

\* C23 amended: the envelope Encrypt returns carries the cipher tag and no
\* key metadata; doCmdSave adds the KDF tag, the salt, N, r, p and the hash
\* of the key it derived to that envelope and stores the result; run and
\* print derive the key from the stored values.
C23_SaveAttachesMetadata ==
    /\ SavedNow => /\ SaveEncrypted.algorithm = CipherAlgo_AES256CTR
                   /\ SaveEncrypted.userKey = Nil
                   /\ StoredEnv = [SaveEncrypted EXCEPT !.userKey = SaveUserKey]
                   /\ Decrypt(StoredEnv, SaveKey).err = ""
    /\ RederivesFromStored

\* run or print met a stored N of 0 and failed in the key derivation, which
\* the parameters of save pass.
C23_Witness ==
    /\ Retrieved /\ StoredValue # Nil
    /\ StoredEnv.userKey.scrypt.N = 0
    /\ StoredEnv.userKey.hash = Hash(SaveKey)
    /\ v_last.err = "scrypt: N must be > 1 and a power of 2"

\* The password of the last subcommand is not the one the stored envelope was
\* saved with.
WrongPassword == v_saved[v_last.handle] # Nil
                 /\ v_last.pwd # v_saved[v_last.handle].pwd

\* C5: with a password other than the one the envelope was saved with, run and
\* print report "incorrect password" at the hash comparison, before
\* DecryptCommand is called, and launch and print nothing; Decrypt and
\* DecryptCommand with the key derived from that password fail with the
\* integrity error at the HMAC comparison.
C5_WrongPasswordRejected ==
    (/\ Retrieved
     /\ StoredValue # Nil
     /\ ~BadCipherTag(StoredEnv)
     /\ ~BadKDFTag(StoredEnv)
     /\ ~BadScrypt(StoredEnv)
     /\ WrongPassword) =>
        /\ v_last.err = ErrIncorrectPassword
        /\ v_last.events = <<"load", "kdf", "hash">>
        /\ NothingDone
        /\ LET k == DerivedKey(StoredEnv, v_last.pwd)
               d == Decrypt(StoredEnv, k)
               c == DecryptCommand(StoredEnv, k)
           IN  /\ d.err = ErrIntegrity
               /\ d.events = <<"algo", "sign", "mismatch">>
               /\ d.plaintext = NilBytes
               /\ c.err = ErrIntegrity
               /\ c.cmd = Nil

\* run was given a wrong password for a stored envelope.
C5_Witness ==
    /\ v_last.op = "run"
    /\ v_last.pwd # NilBytes
    /\ StoredValue # Nil
    /\ WrongPassword
    /\ v_last.err = ErrIncorrectPassword

\* The envelope stored under the handle of the last subcommand holds a record
\* saved under another name.
ForeignRecord == v_saved[v_last.handle] # Nil
                 /\ v_saved[v_last.handle].name # v_last.handle

\* C6: when the envelope stored under the handle decrypts correctly (right
\* password, tags untouched) but holds a record of another name, run and print
\* fail with the name mismatch error after the decryption, run returns status
\* 1, and nothing is launched or printed.
C6_HandleBinding ==
    (/\ Retrieved
     /\ StoredValue # Nil
     /\ ~BadCipherTag(StoredEnv)
     /\ ~BadKDFTag(StoredEnv)
     /\ ~WrongPassword
     /\ ForeignRecord) =>
        /\ v_last.err = ErrNameMismatch
        /\ v_last.events = <<"load", "kdf", "hash", "DecryptCommand", "algo",
                             "sign", "verified", "slice", "fn", "fn",
                             "unmarshal">>
        /\ v_last.op = "run" => v_last.status = 1
        /\ NothingDone

\* run was asked for a handle under which the envelope of another handle was
\* copied, with the right password.
C6_Witness ==
    /\ v_last.op = "run"
    /\ v_last.pwd # NilBytes
    /\ StoredValue # Nil
    /\ ~WrongPassword
    /\ ForeignRecord
    /\ v_last.err = ErrNameMismatch

\* The last subcommand was a run or print, with the password of the save, of
\* a handle whose stored envelope is the one a save of that handle wrote.
OwnRecordRightPassword ==
    /\ Retrieved
    /\ StoredValue # Nil
    /\ v_saved[v_last.handle] # Nil
    /\ ~BadCipherTag(StoredEnv) /\ ~BadKDFTag(StoredEnv) /\ ~BadScrypt(StoredEnv)
    /\ ~WrongPassword
    /\ ~ForeignRecord

SavedHandles == SelectSeq(KeyOrder, LAMBDA h : v_saved[h] # Nil)

\* The last subcommand was a list that could open the database.
Listed == v_last.op = "list" /\ v_last.err # ErrStorage

Launched == v_last.op = "run" /\ v_last.launched # Nil

\* C11: in detached mode doCmdRun starts the child and returns without
\* waiting for it: signal.Notify is not called, no await or forwarding
\* goroutine is started and exitCh is never received from; when the start
\* succeeded it returns status 0 and no error, however the child ends later.
C11_DetachedImmediacy ==
    (Launched /\ v_last.launched.detached) =>
        /\ v_last.launched.sup = Unsupervised
        /\ v_last.status = 0
        /\ v_last.launched.started => v_last.err = ""
        /\ ~v_last.launched.started => v_last.err = "failed to start"

\* A detached run returned status 0 and no error for a child that is later
\* killed by a signal.
C11_Witness ==
    /\ Launched
    /\ v_last.launched.detached
    /\ v_last.launched.started
    /\ v_last.outcome.kind = "signaled"
    /\ v_last.status = 0
    /\ v_last.err = ""

\* C13: a save without the replace flag on a stored handle fails and leaves
\* that handle and every other handle unchanged; a save that succeeds was
\* given the replace flag or an absent handle, stores the new value under
\* exactly that handle and changes no other handle; a save with the replace
\* flag or on an absent handle fails only before the database is written.
C13_SaveReplaceRule ==
    [][v_last'.op = "save" =>
          LET h == v_last'.handle
          IN  /\ (db.command[h] # Nil /\ ~v_last'.replace)
                    => (v_last'.err # "" /\ db'.command = db.command)
              /\ v_last'.err # "" => db'.command = db.command
              /\ v_last'.err = ""
                    => /\ v_last'.replace \/ db.command[h] = Nil
                       /\ \A g \in Handles \ {h} :
                             db'.command[g] = db.command[g]
                       /\ db'.command[h] # Nil
                       /\ LET r == retrieveCommandData(db', h, v_last'.pwd)
                          IN  r.err = "" /\ r.cmd = v_last'.cmd
              /\ (v_last'.replace \/ db.command[h] = Nil)
                    => v_last'.err # ErrExists]_vars

\* A save without the replace flag was refused for a stored handle, and a
\* save with the flag replaced a stored value.
C13_Witness ==
    /\ v_last.op = "save"
    /\ v_last.existed
    /\ \/ ~v_last.replace /\ v_last.err = ErrExists
       \/ /\ v_last.replace /\ v_last.err = ""
          /\ \E g \in Handles \ {v_last.handle} : db.command[g] # Nil

\* The errors of a subcommand other than the child's own failure.
OperationalErrors ==
    {ErrPassword, ErrNotFound, ErrStorage, ErrDeserialise, ErrKeyAlgo,
     ErrCipherAlgo, ErrIncorrectPassword, ErrIntegrity, ErrNameMismatch,
     ErrExists, "failed to start",
     "failed to generate the random password salt"}

\* The child of the last run was started attached and exited.
AttachedExit ==
    /\ Launched
    /\ ~v_last.launched.detached
    /\ v_last.launched.started
    /\ v_last.outcome.kind = "exit"

\* C14: the tool exits with the exit code of the child of an attached run;
\* after an operational error (password prompt, handle not found, storage,
\* unsupported algorithm, wrong password, integrity, name mismatch, start of
\* the child) it exits with the one code 1; it exits with 0 only when the
\* subcommand returned no error and status 0.
C14_ExitCode ==
    v_last.op \in {"run", "save"} =>
        /\ AttachedExit => v_last.exit = v_last.outcome.code
        /\ v_last.err \in OperationalErrors \cup ScryptErrors
              => v_last.exit = 1
        /\ v_last.exit = 0 => (v_last.err = "" /\ v_last.status = 0)
        /\ v_last.err \in OperationalErrors \cup ScryptErrors
                            \cup {"", "exited with error", PanicDivide}

\* An attached run whose child exited with 37 made the tool exit with 37.
C14_Witness ==
    /\ AttachedExit
    /\ v_last.outcome.code = 37
    /\ v_last.exit = 37

\* The child of the last run started attached and did not exit with 0.
ExecutionFailure ==
    /\ Launched
    /\ ~v_last.launched.detached
    /\ v_last.launched.started
    /\ ~(v_last.outcome.kind = "exit" /\ v_last.outcome.code = 0)

\* C16: in both modes a child that fails to start yields the error 'failed to
\* start' and no await or forward task is launched; an attached child that
\* fails while running yields the error 'exited with error'; both errors
\* carry the handle; a run that launches a child returns a nil error only
\* when the child started and, if attached, exited with status 0.
C16_StartVersusExecution ==
    Launched =>
        /\ ~v_last.launched.started
              => /\ v_last.err = "failed to start"
                 /\ v_last.errCtx = v_last.handle
                 /\ v_last.launched.sup.tasks = {}
        /\ ExecutionFailure
              => /\ v_last.err = "exited with error"
                 /\ v_last.errCtx = v_last.handle
        /\ v_last.err = ""
              => /\ v_last.launched.started
                 /\ ~v_last.launched.detached
                       => (v_last.outcome.kind = "exit"
                             /\ v_last.outcome.code = 0 /\ v_last.status = 0)

\* A detached run whose child failed to start returned 'failed to start'.
C16_Witness ==
    /\ Launched
    /\ v_last.launched.detached
    /\ ~v_last.launched.started
    /\ v_last.err = "failed to start"
    /\ v_last.errCtx = v_last.handle

\* C17: the arguments handed to the child are the arguments saved under the
\* handle, in the order saved, followed by the one-off arguments of the run,
\* in the order given; without one-off arguments they are the saved ones.
C17_PassThroughArguments ==
    Launched =>
        /\ v_saved[v_last.handle] # Nil
        /\ v_last.launched.args
              = v_saved[v_last.handle].args \o v_last.config.Args
        /\ v_last.config.Args = <<>>
              => v_last.launched.args = v_saved[v_last.handle].args

\* A run with two one-off arguments handed four arguments to the child.
C17_Witness ==
    /\ Launched
    /\ Len(v_last.config.Args) = 2
    /\ Len(v_saved[v_last.handle].args) = 2
    /\ v_last.launched.args = <<<<120>>, <<119>>, <<121>>, <<118>>>>

\* C18: a delete of a handle that is not stored returns the not-found error
\* (or the error of a database that cannot be opened) and leaves every entry
\* unchanged; a delete of a stored handle that returns no error removes that
\* handle and changes no other; a run, print or delete of a handle that is
\* not stored, as after its delete, reports not found.
C18_Delete ==
    [][/\ v_last'.op = "delete" =>
             LET h == v_last'.handle
             IN  /\ db.command[h] = Nil
                       => /\ v_last'.err \in {ErrNotFound, ErrStorage}
                          /\ db'.command = db.command
                 /\ db.command[h] # Nil
                       => v_last'.err \in {"", ErrStorage}
                 /\ v_last'.err # "" => db'.command = db.command
                 /\ v_last'.err = ""
                       => /\ db'.command = [db.command EXCEPT ![h] = Nil]
                          /\ loadCommandData(db', h).err = ErrNotFound
                          /\ doCmdDelete(db', h).err = ErrNotFound
       /\ (v_last'.op \in {"run", "print", "delete"}
             /\ db.command[v_last'.handle] = Nil)
             => v_last'.err \in {ErrNotFound, ErrStorage, ErrPassword}]_vars

\* A stored handle was deleted while another handle stayed stored.
C18_Witness ==
    /\ v_last.op = "delete"
    /\ v_last.err = ""
    /\ db.command[v_last.handle] = Nil
    /\ \E g \in Handles : db.command[g] # Nil

\* C20: a run, print or list, whether it succeeds or fails, leaves the set
\* of stored handles and every stored value unchanged; when a subcommand
\* changes the bytes stored under a handle that stays stored, it is a save of
\* that handle with the replace flag.
C20_ReadOnlyOutsideSave ==
    [][/\ v_last'.op \in {"run", "print", "list"}
             => db'.command = db.command
       /\ v_last'.op # "none"
             => \A h \in Handles :
                   (db.command[h] # Nil /\ db'.command[h] # Nil
                      /\ db'.command[h] # db.command[h])
                   => /\ v_last'.op = "save"
                      /\ v_last'.handle = h
                      /\ v_last'.replace
                      /\ v_last'.err = ""]_vars

\* A run has launched a stored command while every handle was stored.
C20_Witness ==
    /\ Launched
    /\ v_last.launched.started
    /\ \A h \in Handles : db.command[h] # Nil

(***************************************************************************)
(* Claims about the supervisor (checked under SpecRun and FairSpecRun)     *)
(***************************************************************************)
Returned == s_main = "returned"

\* C7: when the attached child exits normally with code c (0 included),
\* runCmd returns exactly c as the status.
C7_ExitPropagation ==
    (Returned /\ s_child = "exited" /\ s_term.kind = "exit")
        => s_ret.status = s_term.code

C7_Witness ==
    /\ Returned /\ s_child = "exited"
    /\ s_term.kind = "exit" /\ s_term.code = 37
    /\ s_ret.status = 37

\* C8 as claimed: no cmd.Process.Signal call is made once waitCh is closed.
C8_NoSignalAfterCompletion ==
    \A j \in 1..Len(s_sent) : ~s_sent[j].afterWait

\* C9 as claimed: when runCmd has returned from an attached run, the child
\* has exited and the forwarding goroutine has left its loop.
C9_ReturnsAfterForwarderStopped ==
    (Returned /\ s_child # "none")
        => (s_child = "exited" /\ s_fwd = "done")

\* Signal number i was delivered to the supervisor while the child was running.
DeliveredWhileRunning(i) ==
    i <= Len(s_delivered) /\ s_delivered[i].running

\* cmd.Process.Signal was called with signal number i.
SentToChild(i) ==
    \E j \in 1..Len(s_sent) :
        s_sent[j].id = i /\ s_sent[j].sig = s_delivered[i].sig

C12_AbnormalEndNonZero ==
    Returned =>
        /\ (s_child = "exited" /\ s_term.kind \in {"signaled", "waitfail"})
              => s_ret.status # 0
        /\ s_ret.status = 0
              => (s_child = "exited" /\ s_awaitErr = NilErr
                    /\ WaitErrOf(s_term) = NilErr)

\* runCmd has returned -1 for a child killed by a signal.
C12_Witness ==
    /\ Returned
    /\ s_child = "exited"
    /\ s_term.kind = "signaled"
    /\ s_ret.status = -1

\* C15: when the attached child ran and exited with a code other than 0,
\* runCmd returns that code as the status together with a nil error.
C15_NonZeroExitIsData ==
    (Returned /\ s_child = "exited" /\ s_term.kind = "exit" /\ s_term.code # 0)
        => (s_ret.status = s_term.code /\ s_ret.err = "")

\* runCmd has returned the status of a child that exited with 37.
C15_Witness ==
    /\ Returned
    /\ s_child = "exited"
    /\ s_term.kind = "exit"
    /\ s_term.code = 37
    /\ s_ret.status = 37

\* How far the await goroutine has come.
AwaitRank(pc) ==
    CASE pc = "idle" -> 0
      [] pc = "wait" -> 1
      [] pc = "send" -> 2
      [] pc = "closeExit" -> 3
      [] pc = "closeWait" -> 4
      [] pc = "done" -> 5

\* What a step does to the two channels of runCmdAsync.
SendsExit == Len(s_exitCh'.buf) > Len(s_exitCh.buf)

ClosesExit == s_await' # s_await /\ s_await \in {"send", "closeExit"}
                /\ s_exitCh'.closed /\ s_exitCh'.buf = s_exitCh.buf

ClosesWait == s_waitCh = "open" /\ s_waitCh' # "open"

StartFailed == s_main = "start" /\ s_main' = "returned"

\* The channels as the writers of a step see them: a send or a close of a
\* closed channel would panic, and only the await goroutine, or runCmdAsync
\* itself when the start failed, writes.
ChannelWriteRule ==
    /\ AwaitRank(s_await') >= AwaitRank(s_await)
    /\ SendsExit => /\ s_await = "send" /\ s_await' = "closeExit"
                    /\ ~s_exitCh.closed
                    /\ s_exitCh.buf = <<>>
    /\ ClosesExit => ~s_exitCh.closed
    /\ (~s_exitCh.closed /\ s_exitCh'.closed)
          => \/ s_await = "closeExit" /\ s_await' = "closeWait"
             \/ StartFailed /\ s_await = "idle" /\ s_fwd = "idle"
    /\ StartFailed => ~s_exitCh.closed /\ s_exitCh.buf = <<>>
    /\ ClosesWait => /\ s_await = "closeWait" /\ s_await' = "done"
                     /\ s_child = "exited"
                     /\ s_exitCh.closed
    /\ s_waitCh = "closed" => s_waitCh' = "closed"
    /\ s_exitCh.closed => s_exitCh'.closed
    /\ (s_fwd # "idle" /\ s_fwd' # s_fwd)
          => (s_exitCh' = s_exitCh /\ s_waitCh' = s_waitCh)

\* C22: in an attached run only the await goroutine writes the two channels:
\* waitCh is closed once and only after cmd.Wait has returned, exitCh is sent
\* at most one value and closed once, the forwarding goroutine writes
\* neither; no value is sent on a closed channel and no channel is closed
\* twice, also when the child failed to start.
C22_ChannelDiscipline ==
    /\ [](s_waitCh = "closed"
            => (s_child = "exited" /\ s_await = "done" /\ s_exitCh.closed))
    /\ [](Len(s_exitCh.buf) <= 1)
    /\ [][ChannelWriteRule]_vars

\* The await goroutine has sent an error, closed both channels and ended;
\* runCmd has received the error and the forwarding goroutine has ended.
C22_Witness ==
    /\ s_await = "done"
    /\ s_awaitErr # NilErr
    /\ s_exitCh = [buf |-> <<>>, closed |-> TRUE]
    /\ s_waitCh = "closed"
    /\ Returned
    /\ s_fwd = "done"

\* How often cmd.Process.Signal was called with signal number i.
TimesSent(i) == Cardinality({j \in 1..Len(s_sent) : s_sent[j].id = i})

\* C29: every SIGINT or SIGTERM delivered to the supervisor while the attached
\* child is running is passed on: it is not dropped, however many signals
\* arrive before the forwarding goroutine has received the one before, it
\* is sent to the child at most once, and it has been sent as that signal
\* once the forwarding goroutine has ended with interruptCh empty.
C29_ForwardedExactlyOnce ==
    \A i \in 1..Len(s_delivered) :
        DeliveredWhileRunning(i)
            => /\ s_delivered[i].accepted
               /\ TimesSent(i) <= 1
               /\ (s_fwd = "done" /\ s_intCh = <<>>)
                     => (TimesSent(i) = 1 /\ SentToChild(i))

\* Two signals were delivered while the child was running, the second before
\* the forwarding goroutine had received the first: the first was sent to the
\* child once, the second was dropped and never sent.
C29_Witness ==
    /\ Len(s_delivered) = 2
    /\ DeliveredWhileRunning(1) /\ s_delivered[1].accepted
    /\ DeliveredWhileRunning(2) /\ ~s_delivered[2].accepted
    /\ s_fwd = "done" /\ s_intCh = <<>>
    /\ TimesSent(1) = 1 /\ TimesSent(2) = 0

SaveRace ==
    /\ \A p \in Procs :
          /\ t_proc[p].pc = "done"
          /\ t_proc[p].op = "save"
          /\ ~t_proc[p].replace
          /\ t_proc[p].absent
          /\ t_proc[p].err # ErrIO
    /\ \A p, q \in Procs : t_proc[p].handle = t_proc[q].handle

NoWriter == \A p \in Procs : t_lock[p] # "excl"

\* C19: an invocation that writes (save, delete) holds the database while no
\* other invocation holds it, and every transaction runs under the lock of
\* its invocation; of two concurrent saves of one handle that was not stored,
\* without the replace flag, exactly one succeeds; a value read by run or
\* print is a whole value some save wrote, and whenever no writer holds the
\* database every stored value is whole.
C19_StoreAtomicity ==
    /\ \A p \in Procs : \A q \in Procs \ {p} :
          t_lock[p] = "excl" => t_lock[q] = "none"
    /\ \A p \in Procs :
          /\ t_proc[p].pc \in {"buckets", "update", "writeA", "writeB"}
                => t_lock[p] = "excl"
          /\ t_proc[p].pc \in {"view", "readB"} => t_lock[p] = "shared"
          /\ t_proc[p].pc \in {"idle", "open", "done"} => t_lock[p] = "none"
    /\ SaveRace => Cardinality({p \in Procs : t_proc[p].err = ""}) = 1
    /\ \A p \in Procs :
          (t_proc[p].op = "load" /\ t_proc[p].pc \in {"close", "done"}
             /\ t_proc[p].err # ErrStorage)
          => /\ Whole(t_proc[p].got)
             /\ t_proc[p].err = ErrNotFound <=> t_proc[p].got = Absent
    /\ NoWriter => \A h \in Handles : Whole(t_file.command[h])

\* Two saves of one handle that was not stored have raced: one stored its
\* value, the other waited for the lock and was refused.
C19_Witness ==
    /\ SaveRace
    /\ \E p \in Procs : \E q \in Procs \ {p} :
          /\ t_proc[p].err = ""
          /\ t_proc[q].err = ErrExists
          /\ t_file.command[t_proc[p].handle] = ValueOf(p)

\* C25: accessDB closes the database it opened exactly once on every path,
\* also when the closure fails after createBuckets or in it, and never closes
\* one it could not open; it returns the first error: that of bolt.Open, else
\* that of the closure, else that of db.Close.
C25_ClosedOnceFirstError ==
    \A p \in Procs :
        /\ t_proc[p].closes <= t_proc[p].opens
        /\ t_proc[p].opens <= 1
        /\ t_proc[p].opens > t_proc[p].closes <=> t_lock[p] # "none"
        /\ t_proc[p].pc = "done"
              => /\ t_proc[p].closes = t_proc[p].opens
                 /\ t_proc[p].opens = 0
                       => t_proc[p].ret = ErrStorage
                 /\ (t_proc[p].opens = 1 /\ t_proc[p].err # "")
                       => t_proc[p].ret = t_proc[p].err
                 /\ (t_proc[p].opens = 1 /\ t_proc[p].err = "")
                       => t_proc[p].ret = t_proc[p].closeErr

\* A save whose createBuckets failed has closed the database, the close
\* failed as well, and accessDB returned the error of createBuckets.
C25_Witness ==
    \E p \in Procs :
        /\ t_proc[p].pc = "done"
        /\ t_proc[p].op = "save"
        /\ t_proc[p].opens = 1 /\ t_proc[p].closes = 1
        /\ t_proc[p].err = ErrIO /\ t_proc[p].closeErr = ErrIO
        /\ t_proc[p].ret = ErrIO
        /\ t_lock[p] = "none"

====
